---------------------------- MODULE Spec2Model ----------------------------
(***************************************************************************)
(* Model of the observability server: the SQLite event store and metric    *)
(* tables (db.ts), the HTTP ingestion handlers and the WebSocket fan-out   *)
(* (index.ts).                                                              *)
(*                                                                         *)
(* Conventions.  A JavaScript value that may be undefined/null and an SQL  *)
(* column that may be NULL are modelled as a sequence of length 0 or 1:    *)
(* None is undefined/null/NULL, Some(v) is the value v.  The falsy string  *)
(* "" and the falsy number 0 are Some("") and Some(0).  A TEXT column      *)
(* holding JSON.stringify(v) is Stringify(v), read back with Parse.         *)
(***************************************************************************)
EXTENDS Integers, Sequences, FiniteSets, TLC

\* ------------------------------------------------------------------ bounds
\* HTTP requests issued in one behaviour of Spec (the whole API).
MaxRequests == 2
\* HTTP requests issued in one behaviour of SpecEvents (events and fan-out).
MaxEventRequests == 2
\* HTTP requests issued in one behaviour of SpecHitl (overlapping responses).
MaxHitlRequests == 3
\* HTTP requests issued in one behaviour of the session and metric
\* specifications.
MaxMetricRequests == 4
\* HTTP requests issued in one behaviour of SpecRecent (the recent-events list).
MaxRecentRequests == 5
MaxReportRequests == 4
MaxAggregateRequests == 5
MaxReadRequests == 4
MaxFilterRequests == 2
MaxInsertRequests == 3
MaxCategoryRequests == 3
MaxStatsRequests == 3
MaxSockets == 6
MaxMessages == 3
MaxCalls == 2
MaxUpsertRequests == 4
MaxAgentRequests == 4
\* the longest duration_ms of a tool call
MaxDuration == 4

\* --------------------------------------------------------------- constants
\* Default backlog length of getRecentEvents and of the initial message.
RecentLimit == 300
\* LIMIT 300 of the session_ids query of getFilterOptions
FilterLimit == 300
BaseDelay == 1000
MaxDelay == 30000
maxEvents == 300
Trimmed == 10

\* ------------------------------------------------------------------ values
None == <<>>
Some(v) == <<v>>

\* JS truthiness of an optional string / number / object.
TruthyStr(m) == m # None /\ m # Some("")
TruthyNum(m) == m # None /\ m # Some(0)
TruthyObj(m) == m # None

\* JSON.stringify / JSON.parse of a JSON value: a TEXT value tagged "json".
Stringify(v) == <<"json", v>>
Parse(t) == t[2]

\* The dashboard connections (ServerWebSocket objects) of one behaviour.
Clients == {"c1", "c2"}

VARIABLES
    events,         \* table events: sequence of rows, row i has id i
    token_metrics,  \* table token_metrics: sequence of rows
    tool_metrics,   \* table tool_metrics: sequence of rows
    findings,       \* table findings: sequence of rows, finding_id UNIQUE
    wstg_coverage,  \* table wstg_coverage: sequence of rows
    sessions,       \* table sessions: sequence of rows, session_id UNIQUE
    rowids,         \* sqlite_sequence: last AUTOINCREMENT id of the tables with REPLACE
    wsClients,      \* the registry Set of index.ts, in insertion order
    socket,         \* per connection: "idle", "open", "broken" (dead, no handler has
                    \* run, sends throw), "errored" (error handler has run), "closed"
    inbox,          \* per connection: the messages sent to it, in order
    inflight,       \* respond requests suspended in `await sendResponseToAgent`
    agentInbox,     \* what sendResponseToAgent has sent to requesters, in order
    resp,           \* the last HTTP response produced
    now,            \* the last value Date.now() returned
    nreq,           \* number of HTTP requests handled or begun
    budget,         \* number of HTTP requests the producers issue in this behaviour
    viewer,         \* the closure of one useWebSocket(url) instance of the dashboard
    sends,          \* the sendResponseToAgent calls: closure, socket, timers, promise
    wseq,           \* number of store writes done (history variable)
    orphans         \* <<table, session_id>> of the metric writes made while the
                    \* session had no row (history variable)

store == <<events, token_metrics, tool_metrics, findings, wstg_coverage, sessions, rowids>>
\* The state of the server process apart from sendResponseToAgent's closures.
server == <<events, token_metrics, tool_metrics, findings, wstg_coverage, sessions, rowids,
            wsClients, socket, inbox, inflight, agentInbox, resp, now, nreq, budget,
            wseq, orphans>>
vars == <<server, viewer, sends>>

\* The next call of Date.now() returns the same millisecond as the last one or
\* the next one: time does not go back.
ClockReadings == {now, now + 1}

\* --------------------------------------------------------------- sequences
Range(s) == {s[i] : i \in 1..Len(s)}
Reverse(s) == [i \in 1..Len(s) |-> s[Len(s) + 1 - i]]
Without(s, x) == SelectSeq(s, LAMBDA y : y # x)
Prefix(s, n) == IF n >= Len(s) THEN s ELSE SubSeq(s, 1, n)

\* ------------------------------------------------------------- event store
\* The HookEvent of a request body; id is assigned by the store.
HookEvent(sa, sid, het, pl, ts, hitl, hst) ==
    [id |-> None, source_app |-> sa, session_id |-> sid, hook_event_type |-> het,
     payload |-> pl, timestamp |-> ts, humanInTheLoop |-> hitl,
     humanInTheLoopStatus |-> hst]

PendingStatus == [status |-> "pending", respondedAt |-> None, response |-> None]

\* insertEvent: const timestamp = event.timestamp || Date.now()
insertEventTimestamp(event, clock) ==
    IF TruthyNum(event.timestamp) THEN event.timestamp[1] ELSE clock

\* insertEvent: status defaults to pending when a HITL request is carried.
insertEventStatus(event) ==
    IF TruthyObj(event.humanInTheLoop) /\ ~TruthyObj(event.humanInTheLoopStatus)
    THEN Some(PendingStatus)
    ELSE event.humanInTheLoopStatus

\* The row bound by the INSERT of insertEvent; AUTOINCREMENT id, no deletes.
insertEventRow(event, clock) ==
    LET hst == insertEventStatus(event)
    IN [id |-> Len(events) + 1,
        source_app |-> event.source_app,
        session_id |-> event.session_id,
        hook_event_type |-> event.hook_event_type,
        payload |-> Stringify(event.payload),
        timestamp |-> insertEventTimestamp(event, clock),
        humanInTheLoop |-> IF TruthyObj(event.humanInTheLoop)
                           THEN Some(Stringify(event.humanInTheLoop[1])) ELSE None,
        humanInTheLoopStatus |-> IF TruthyObj(hst)
                                 THEN Some(Stringify(hst[1])) ELSE None]

\* A faulty insertEvent: the returned object keeps the body's timestamp
\* instead of the one that was stored.
insertEventEchoingBody(event, clock) ==
    LET row == insertEventRow(event, clock)
    IN [events |-> Append(events, row),
        saved |-> [event EXCEPT !.id = Some(row.id),
                                !.humanInTheLoopStatus = insertEventStatus(event)]]

\* insertEvent(event): the table after the insert and the returned object
\* {...event, id, timestamp, humanInTheLoopStatus}.
insertEvent(event, clock) ==
    LET row == insertEventRow(event, clock)
    IN [events |-> Append(events, row),
        saved |-> [event EXCEPT !.id = Some(row.id),
                                !.timestamp = Some(row.timestamp),
                                !.humanInTheLoopStatus = insertEventStatus(event)]]

\* The row -> HookEvent mapping shared by getRecentEvents and
\* updateEventHITLResponse.
rowToEvent(row) ==
    [id |-> Some(row.id),
     source_app |-> row.source_app,
     session_id |-> row.session_id,
     hook_event_type |-> row.hook_event_type,
     payload |-> Parse(row.payload),
     timestamp |-> Some(row.timestamp),
     humanInTheLoop |-> IF row.humanInTheLoop # None
                        THEN Some(Parse(row.humanInTheLoop[1])) ELSE None,
     humanInTheLoopStatus |-> IF row.humanInTheLoopStatus # None
                              THEN Some(Parse(row.humanInTheLoopStatus[1])) ELSE None]

\* ORDER BY timestamp DESC: the newest row first; rows of equal timestamp
\* come out newest id first (backward scan of idx_timestamp).
Newest(rows) ==
    CHOOSE r \in rows : \A q \in rows :
        q.timestamp < r.timestamp \/ (q.timestamp = r.timestamp /\ q.id <= r.id)

RECURSIVE orderByTimestampDesc(_)
orderByTimestampDesc(rows) ==
    IF rows = {} THEN <<>>
    ELSE LET r == Newest(rows) IN <<r>> \o orderByTimestampDesc(rows \ {r})

\* A faulty getRecentEvents: the mapped rows are not reversed.
getRecentEventsNewestFirst(table, limit) ==
    LET rows == Prefix(orderByTimestampDesc(Range(table)), limit)
    IN [i \in 1..Len(rows) |-> rowToEvent(rows[i])]

\* getRecentEvents(limit): ORDER BY timestamp DESC LIMIT ?, mapped, reversed.
getRecentEventsOf(table, limit) ==
    LET rows == Prefix(orderByTimestampDesc(Range(table)), limit)
    IN Reverse([i \in 1..Len(rows) |-> rowToEvent(rows[i])])

getRecentEvents(limit) == getRecentEventsOf(events, limit)

\* A faulty updateEventHITLResponse: the UPDATE has no WHERE clause.
updateEveryEventHITLResponse(id, response) ==
    LET status == [status |-> "responded",
                   respondedAt |-> response.respondedAt,
                   response |-> Some(response)]
        table == [i \in 1..Len(events) |->
                    [events[i] EXCEPT !.humanInTheLoopStatus = Some(Stringify(status))]]
        hit == {i \in 1..Len(table) : table[i].id = id}
    IN [events |-> table,
        updated |-> IF hit = {} THEN None
                    ELSE Some(rowToEvent(table[CHOOSE i \in hit : TRUE]))]

\* A faulty updateEventHITLResponse: the UPDATE also sets the row's timestamp
\* to the time of the response.
updateEventHITLResponseStampingRow(id, response) ==
    LET status == [status |-> "responded",
                   respondedAt |-> response.respondedAt,
                   response |-> Some(response)]
        table == [i \in 1..Len(events) |->
                    IF events[i].id = id
                    THEN [events[i] EXCEPT !.humanInTheLoopStatus =
                                               Some(Stringify(status)),
                                           !.timestamp = response.respondedAt[1]]
                    ELSE events[i]]
        hit == {i \in 1..Len(table) : table[i].id = id}
    IN [events |-> table,
        updated |-> IF hit = {} THEN None
                    ELSE Some(rowToEvent(table[CHOOSE i \in hit : TRUE]))]

\* updateEventHITLResponse(id, response): unconditional UPDATE ... WHERE id,
\* then SELECT; null when no row has the id.
updateEventHITLResponse(id, response) ==
    LET status == [status |-> "responded",
                   respondedAt |-> response.respondedAt,
                   response |-> Some(response)]
        table == [i \in 1..Len(events) |->
                    IF events[i].id = id
                    THEN [events[i] EXCEPT !.humanInTheLoopStatus =
                                               Some(Stringify(status))]
                    ELSE events[i]]
        hit == {i \in 1..Len(table) : table[i].id = id}
    IN [events |-> table,
        updated |-> IF hit = {} THEN None
                    ELSE Some(rowToEvent(table[CHOOSE i \in hit : TRUE]))]

\* ------------------------------------------------------------ live fan-out
Msg(type, data, w) == [type |-> type, data |-> data, w |-> w]

\* client.send(message) throws exactly when the connection is dead but its
\* close handler has not run yet.
SendThrows(c) == socket[c] = "broken"

\* wsClients.add / wsClients.delete of the insertion-ordered Set.
SetAdd(reg, c) == IF c \in Range(reg) THEN reg ELSE Append(reg, c)
SetDelete(reg, c) == Without(reg, c)

\* A faulty loop body: a send that throws empties the whole registry.
sendOrDropAll(c, msg, st) ==
    IF SendThrows(c)
    THEN [st EXCEPT !.reg = <<>>]
    ELSE [st EXCEPT !.box[c] = Append(@, msg)]

\* One turn of the loop body:
\*   try { client.send(message) } catch (err) { wsClients.delete(client) }
sendOrDrop(c, msg, st) ==
    IF SendThrows(c)
    THEN [st EXCEPT !.reg = SetDelete(st.reg, c)]
    ELSE [st EXCEPT !.box[c] = Append(@, msg)]

\* wsClients.forEach(...) over the registry as it is when the loop starts.
RECURSIVE forEachClient(_, _, _)
forEachClient(todo, msg, st) ==
    IF todo = <<>> THEN st
    ELSE forEachClient(Tail(todo), msg, sendOrDrop(Head(todo), msg, st))

broadcast(msg) == forEachClient(wsClients, msg, [reg |-> wsClients, box |-> inbox])

\* -------------------------------------------------------------- sessions
\* Body of POST /api/sessions: Partial<SessionSummary> & {session_id}.
SessionBody(sid, client, target, status, started, ended, agents) ==
    [session_id |-> sid, client_name |-> client, target_url |-> target,
     status |-> status, started_at |-> started, ended_at |-> ended,
     agents_used |-> agents]

\* x || null for a string / number bind parameter.
OrNullStr(m) == IF TruthyStr(m) THEN m ELSE None
OrNullNum(m) == IF TruthyNum(m) THEN m ELSE None
\* COALESCE(?, column)
Coalesce(m, col) == IF m # None THEN m ELSE col

SessionIndex(table, sid) == {i \in 1..Len(table) : table[i].session_id = sid}

\* The row -> SessionSummary mapping of getSession / getSessions.
rowToSession(row) ==
    [id |-> row.id, session_id |-> row.session_id, client_name |-> row.client_name,
     target_url |-> row.target_url, status |-> row.status,
     started_at |-> row.started_at, ended_at |-> row.ended_at,
     total_tokens |-> row.total_tokens, total_cost |-> row.total_cost,
     total_findings |-> row.total_findings,
     total_tool_calls |-> row.total_tool_calls,
     agents_used |-> IF row.agents_used # None THEN Parse(row.agents_used[1]) ELSE <<>>,
     wstg_coverage_pct |-> row.wstg_coverage_pct]

\* getSession(sessionId) on a given sessions table; null when there is no row.
getSessionOf(table, sid) ==
    LET hit == SessionIndex(table, sid)
    IN IF hit = {} THEN None ELSE Some(rowToSession(table[CHOOSE i \in hit : TRUE]))

getSession(sid) == getSessionOf(sessions, sid)

\* A REAL column and a JavaScript number are IEEE 754 doubles: a significand
\* of Precision bits, the first of them 1, read as 0.b1 b2 ... times 2^exp.
\* Zero has no bits.
Precision == 53
Zero == [bits |-> <<>>, exp |-> 0]

RECURSIVE Increment(_)
Increment(bits) ==
    IF bits = <<>> THEN <<>>
    ELSE IF bits[Len(bits)] = 0 THEN Append(SubSeq(bits, 1, Len(bits) - 1), 1)
    ELSE Append(Increment(SubSeq(bits, 1, Len(bits) - 1)), 0)

\* The next double above the one with these bits.
RoundUp(bits, exp) ==
    IF \A i \in 1..Len(bits) : bits[i] = 1
    THEN [bits |-> <<1>> \o [i \in 1..(Len(bits) - 1) |-> 0], exp |-> exp + 1]
    ELSE [bits |-> Increment(bits), exp |-> exp]

\* n / d as f * 2^exp with 1/2 <= f < 1.
RECURSIVE Scale(_, _, _)
Scale(n, d, e) ==
    IF n >= d THEN Scale(n, 2 * d, e + 1)
    ELSE IF 2 * n < d THEN Scale(2 * n, d, e - 1)
    ELSE [n |-> n, d |-> d, exp |-> e]

\* The first k binary digits of r / d (r < d) and the remainder left.
RECURSIVE Quotient(_, _, _, _)
Quotient(r, d, k, acc) ==
    IF k = 0 THEN [bits |-> acc, rem |-> r]
    ELSE IF 2 * r >= d THEN Quotient(2 * r - d, d, k - 1, Append(acc, 1))
    ELSE Quotient(2 * r, d, k - 1, Append(acc, 0))

\* The double nearest to n / d (ties to even): the operator / on two
\* integers held as doubles, in JavaScript and in SQLite alike.
fdiv(n, d) ==
    IF n = 0 THEN Zero
    ELSE LET s == Scale(n, d, 0)
             q == Quotient(s.n, s.d, Precision, <<>>)
         IN IF 2 * q.rem > s.d \/ (2 * q.rem = s.d /\ q.bits[Precision] = 1)
            THEN RoundUp(q.bits, s.exp)
            ELSE [bits |-> q.bits, exp |-> s.exp]

RECURSIVE Binary(_)
Binary(n) == IF n = 0 THEN <<>> ELSE Append(Binary(n \div 2), n % 2)

\* The bits of (the integer with these bits) * k + carry.
RECURSIVE Product(_, _, _, _)
Product(bits, k, carry, acc) ==
    IF bits = <<>> THEN Binary(carry) \o acc
    ELSE LET t == bits[Len(bits)] * k + carry
             front == SubSeq(bits, 1, Len(bits) - 1)
         IN IF t % 2 = 1 THEN Product(front, k, t \div 2, <<1>> \o acc)
            ELSE Product(front, k, t \div 2, <<0>> \o acc)

\* The double nearest to x * k (ties to even), k a small integer.
fmul(x, k) ==
    IF x = Zero \/ k = 0 THEN Zero
    ELSE LET p == Product(x.bits, k, 0, <<>>)
             keep == SubSeq(p, 1, Precision)
             rest == SubSeq(p, Precision + 1, Len(p))
             half == rest # <<>> /\ rest[1] = 1
             more == \E i \in 2..Len(rest) : rest[i] = 1
         IN IF half /\ (more \/ keep[Precision] = 1)
            THEN RoundUp(keep, x.exp + Len(rest))
            ELSE [bits |-> keep, exp |-> x.exp + Len(rest)]

\* A faulty upsertSession UPDATE: total_tokens is taken from the body as well.
upsertSessionUpdateWithTotals(row, session) ==
    [row EXCEPT !.client_name = Coalesce(OrNullStr(session.client_name), @),
                !.target_url = Coalesce(OrNullStr(session.target_url), @),
                !.status = Coalesce(OrNullStr(session.status), @),
                !.ended_at = Coalesce(OrNullNum(session.ended_at), @),
                !.total_tokens = IF TruthyNum(session.total_tokens)
                                 THEN session.total_tokens[1] ELSE @]

\* upsertSession: the UPDATE of an existing row.
upsertSessionUpdate(row, session) ==
    [row EXCEPT !.client_name = Coalesce(OrNullStr(session.client_name), @),
                !.target_url = Coalesce(OrNullStr(session.target_url), @),
                !.status = Coalesce(OrNullStr(session.status), @),
                !.ended_at = Coalesce(OrNullNum(session.ended_at), @)]

\* upsertSession: the INSERT of a new row; the totals take the column defaults.
upsertSessionInsert(session, clock) ==
    [id |-> Len(sessions) + 1,
     session_id |-> session.session_id,
     client_name |-> OrNullStr(session.client_name),
     target_url |-> OrNullStr(session.target_url),
     status |-> IF TruthyStr(session.status) THEN session.status ELSE Some("running"),
     started_at |-> IF TruthyNum(session.started_at) THEN session.started_at
                    ELSE Some(clock),
     ended_at |-> None,
     total_tokens |-> 0, total_cost |-> 0, total_findings |-> 0,
     total_tool_calls |-> 0,
     agents_used |-> Some(Stringify(IF session.agents_used # None
                                    THEN session.agents_used[1] ELSE <<>>)),
     wstg_coverage_pct |-> Zero]

\* upsertSession(session): the table after it and the returned getSession(...).
upsertSession(session, clock) ==
    LET hit == SessionIndex(sessions, session.session_id)
        table == IF hit # {}
                 THEN [i \in 1..Len(sessions) |->
                          IF i \in hit THEN upsertSessionUpdate(sessions[i], session)
                          ELSE sessions[i]]
                 ELSE Append(sessions, upsertSessionInsert(session, clock))
    IN [sessions |-> table, saved |-> getSessionOf(table, session.session_id)[1]]

\* UPDATE sessions SET column = ? WHERE session_id = ?: no row, no effect.
SetWhere(table, sid, column, value) ==
    [i \in 1..Len(table) |->
        IF table[i].session_id = sid THEN [table[i] EXCEPT ![column] = value]
        ELSE table[i]]

\* A faulty updateSessionTokens: the UPDATE has no WHERE clause.
updateEverySessionTokens(table, sid, tokens, cost) ==
    [i \in 1..Len(table) |->
        [table[i] EXCEPT !.total_tokens = @ + tokens, !.total_cost = @ + cost]]

\* updateSessionTokens: total_tokens = total_tokens + ?, total_cost = total_cost + ?
updateSessionTokens(table, sid, tokens, cost) ==
    [i \in 1..Len(table) |->
        IF table[i].session_id = sid
        THEN [table[i] EXCEPT !.total_tokens = @ + tokens, !.total_cost = @ + cost]
        ELSE table[i]]

\* SELECT COUNT(*) FROM table WHERE session_id = ?
CountOf(table, sid) == Cardinality({i \in 1..Len(table) : table[i].session_id = sid})

\* SUM(CASE WHEN status = ? THEN 1 ELSE 0 END) ... WHERE session_id = ?
CountStatus(table, sid, status) ==
    Cardinality({i \in 1..Len(table) :
                    table[i].session_id = sid /\ table[i].status = Some(status)})

\* A faulty updateSessionToolCount: the count is incremented by the one call
\* just inserted instead of being recounted.
updateSessionToolCountByOne(table, tools, sid) ==
    [i \in 1..Len(table) |->
        IF table[i].session_id = sid
        THEN [table[i] EXCEPT !.total_tool_calls = @ + 1]
        ELSE table[i]]

\* updateSessionToolCount: total_tool_calls = (SELECT COUNT(*) FROM tool_metrics ...)
updateSessionToolCount(table, tools, sid) ==
    SetWhere(table, sid, "total_tool_calls", CountOf(tools, sid))

\* updateSessionFindingCount: total_findings = (SELECT COUNT(*) FROM findings ...)
updateSessionFindingCount(table, found, sid) ==
    SetWhere(table, sid, "total_findings", CountOf(found, sid))

\* updateSessionWSTGCoverage: executed * 100.0 / (COUNT(*) - not_applicable), or 0.
updateSessionWSTGCoverage(table, cov, sid) ==
    LET total == CountOf(cov, sid)
        na == CountStatus(cov, sid, "not_applicable")
        ex == CountStatus(cov, sid, "executed")
    IN SetWhere(table, sid, "wstg_coverage_pct",
                IF total - na > 0 THEN fdiv(ex * 100, total - na) ELSE Zero)

\* A faulty addAgentToSession: the name is pushed without the includes test.
addAgentToSessionAgain(sid, agent) ==
    LET session == getSession(sid)
    IN IF session = None THEN sessions
       ELSE SetWhere(sessions, sid, "agents_used",
                     Some(Stringify(Append(session[1].agents_used, agent))))

\* addAgentToSession(sessionId, agentName)
addAgentToSession(sid, agent) ==
    LET session == getSession(sid)
    IN IF session = None THEN sessions
       ELSE LET agents == session[1].agents_used
            IN IF agent \in Range(agents) THEN sessions
               ELSE SetWhere(sessions, sid, "agents_used",
                             Some(Stringify(Append(agents, agent))))

\* ---------------------------------------------------------------- metrics
\* metric.timestamp || Date.now()
OrNow(ts, clock) == IF TruthyNum(ts) THEN ts[1] ELSE clock

TokenMetric(sid, sa, model, inp, out, total, cost, ts) ==
    [id |-> None, session_id |-> sid, source_app |-> sa, model_name |-> model,
     input_tokens |-> inp, output_tokens |-> out, total_tokens |-> total,
     estimated_cost |-> cost, timestamp |-> ts]

\* insertTokenMetric(metric): INSERT, then updateSessionTokens.
insertTokenMetric(metric, clock) ==
    LET ts == OrNow(metric.timestamp, clock)
        row == [metric EXCEPT !.id = Len(token_metrics) + 1,
                              !.model_name = OrNullStr(@),
                              !.timestamp = ts]
    IN [token_metrics |-> Append(token_metrics, row),
        sessions |-> updateSessionTokens(sessions, metric.session_id,
                                         metric.total_tokens, metric.estimated_cost),
        saved |-> [metric EXCEPT !.id = Some(row.id), !.timestamp = Some(ts)]]

ToolMetric(sid, sa, tool, type, status, dur, vuln, vtype, err, ts) ==
    [id |-> None, session_id |-> sid, source_app |-> sa, tool_name |-> tool,
     tool_type |-> type, status |-> status, duration_ms |-> dur,
     found_vulnerability |-> vuln, vulnerability_type |-> vtype,
     error_message |-> err, timestamp |-> ts]

\* A faulty insertToolMetric: the row is inserted and the count of the owning
\* session is left for later.
insertToolMetricDeferringCount(metric, clock) ==
    LET ts == OrNow(metric.timestamp, clock)
        row == [metric EXCEPT !.id = Len(tool_metrics) + 1,
                              !.tool_type = OrNullStr(@),
                              !.duration_ms = OrNullNum(@),
                              !.found_vulnerability = IF @ = Some(TRUE) THEN 1 ELSE 0,
                              !.vulnerability_type = OrNullStr(@),
                              !.error_message = OrNullStr(@),
                              !.timestamp = ts]
        table == Append(tool_metrics, row)
    IN [tool_metrics |-> table,
        sessions |-> sessions,
        saved |-> [metric EXCEPT !.id = Some(row.id), !.timestamp = Some(ts)]]

\* insertToolMetric(metric): INSERT, then updateSessionToolCount.
insertToolMetric(metric, clock) ==
    LET ts == OrNow(metric.timestamp, clock)
        row == [metric EXCEPT !.id = Len(tool_metrics) + 1,
                              !.tool_type = OrNullStr(@),
                              !.duration_ms = OrNullNum(@),
                              !.found_vulnerability = IF @ = Some(TRUE) THEN 1 ELSE 0,
                              !.vulnerability_type = OrNullStr(@),
                              !.error_message = OrNullStr(@),
                              !.timestamp = ts]
        table == Append(tool_metrics, row)
    IN [tool_metrics |-> table,
        sessions |-> updateSessionToolCount(sessions, table, metric.session_id),
        saved |-> [metric EXCEPT !.id = Some(row.id), !.timestamp = Some(ts)]]

Finding(sid, sa, fid, vtype, sev, conf, wstg, tool, target, ts) ==
    [id |-> None, session_id |-> sid, source_app |-> sa, finding_id |-> fid,
     vulnerability_type |-> vtype, severity |-> sev, confidence |-> conf,
     wstg_id |-> wstg, tool_used |-> tool, target_url |-> target, timestamp |-> ts]

\* The row bound by insertFinding: severity || 'medium', confidence || 'possible'.
insertFindingRow(finding, rowid, clock) ==
    [finding EXCEPT !.id = rowid,
                    !.severity = IF TruthyStr(@) THEN @ ELSE Some("medium"),
                    !.confidence = IF TruthyStr(@) THEN @ ELSE Some("possible"),
                    !.wstg_id = OrNullStr(@),
                    !.tool_used = OrNullStr(@),
                    !.target_url = OrNullStr(@),
                    !.timestamp = OrNow(finding.timestamp, clock)]

\* A faulty write of a finding: a plain INSERT that keeps the row already
\* holding the finding_id.
insertKeepingFinding(table, row) == Append(table, row)

\* INSERT OR REPLACE INTO findings: the row holding the same (non-NULL)
\* finding_id is deleted, the new row is added.
insertOrReplaceFinding(table, row) ==
    Append(SelectSeq(table, LAMBDA f : ~(row.finding_id # None
                                          /\ f.finding_id = row.finding_id)), row)

\* insertFinding(finding): INSERT OR REPLACE, then updateSessionFindingCount
\* of the submitted session_id.
insertFinding(finding, clock) ==
    LET row == insertFindingRow(finding, rowids.findings + 1, clock)
        table == insertOrReplaceFinding(findings, row)
    IN [findings |-> table,
        sessions |-> updateSessionFindingCount(sessions, table, finding.session_id),
        saved |-> [finding EXCEPT !.id = Some(row.id), !.timestamp = Some(row.timestamp)]]

WSTGCoverage(sid, sa, wid, status, count, ts) ==
    [id |-> None, session_id |-> sid, source_app |-> sa, wstg_id |-> wid,
     status |-> status, findings_count |-> count, timestamp |-> ts]

\* A faulty write of a coverage record: the table is UNIQUE on wstg_id alone.
insertOrReplaceCoverageAcrossSessions(table, row) ==
    Append(SelectSeq(table, LAMBDA r : r.wstg_id # row.wstg_id), row)

\* INSERT OR REPLACE INTO wstg_coverage: UNIQUE(session_id, wstg_id).
insertOrReplaceCoverage(table, row) ==
    Append(SelectSeq(table, LAMBDA r : ~(r.session_id = row.session_id
                                          /\ r.wstg_id = row.wstg_id)), row)

\* insertWSTGCoverage(coverage): INSERT OR REPLACE, then updateSessionWSTGCoverage.
insertWSTGCoverage(coverage, clock) ==
    LET ts == OrNow(coverage.timestamp, clock)
        row == [coverage EXCEPT !.id = rowids.wstg_coverage + 1, !.timestamp = ts]
        table == insertOrReplaceCoverage(wstg_coverage, row)
    IN [wstg_coverage |-> table,
        sessions |-> updateSessionWSTGCoverage(sessions, table, coverage.session_id),
        saved |-> [coverage EXCEPT !.id = Some(row.id), !.timestamp = Some(ts)]]

\* ------------------------------------------------------------ HTTP handlers
Response(endpoint, status, error, body) ==
    [endpoint |-> endpoint, status |-> status, error |-> error, body |-> body]

\* A request is taken up.  `clock` is what Date.now() returns in this request
\* when the handler calls it (`reads`); a handler that does not call it leaves
\* the last reading as it is.
Begin(reads, clock) ==
    /\ nreq < budget
    /\ nreq' = nreq + 1
    /\ clock \in ClockReadings
    /\ ~reads => clock = now
    /\ now' = clock
    /\ UNCHANGED <<budget, viewer, sends, socket, agentInbox>>

\* return new Response(JSON.stringify({error}), {status}): nothing else happens.
Reject(endpoint, status, error) ==
    /\ resp' = Response(endpoint, status, Some(error), None)
    /\ UNCHANGED <<store, wsClients, inbox, inflight, wseq, orphans>>

\* The broadcast loop over wsClients followed by the 200 response with `saved`.
Publish(endpoint, type, saved, w) ==
    LET b == broadcast(Msg(type, saved, w))
    IN /\ wsClients' = b.reg
       /\ inbox' = b.box
       /\ resp' = Response(endpoint, 200, None, Some(saved))

\* POST /events: the required-field check.
eventValid(event) ==
    /\ TruthyStr(event.source_app)
    /\ TruthyStr(event.session_id)
    /\ TruthyStr(event.hook_event_type)
    /\ TruthyStr(event.payload)

\* POST /events
PostEvents(event, clock) ==
    /\ Begin(eventValid(event) /\ ~TruthyNum(event.timestamp), clock)
    /\ IF ~eventValid(event)
       THEN Reject("POST /events", 400, "Missing required fields")
       ELSE LET r == insertEvent(event, clock)
            IN /\ events' = r.events
               /\ wseq' = wseq + 1
               /\ Publish("POST /events", "event", r.saved, wseq + 1)
               /\ UNCHANGED <<token_metrics, tool_metrics, findings, wstg_coverage,
                              sessions, rowids, inflight, orphans>>

\* updatedEvent.humanInTheLoop?.responseWebSocketUrl
hasResponseUrl(event) ==
    /\ event.humanInTheLoop # None
    /\ TruthyStr(event.humanInTheLoop[1].responseWebSocketUrl)

\* POST /events/:id/respond up to `await sendResponseToAgent(...)`; without a
\* response URL the handler runs to its end in the same turn.
PostRespond(id, answer, clock) ==
    /\ Begin(TRUE, clock)
    /\ LET response == [answer |-> answer, respondedAt |-> Some(clock)]
           u == updateEventHITLResponse(id, response)
       IN IF u.updated = None
          THEN /\ events' = u.events
               /\ resp' = Response("POST /events/:id/respond", 404,
                                   Some("Event not found"), None)
               /\ UNCHANGED <<token_metrics, tool_metrics, findings, wstg_coverage,
                              sessions, rowids, wsClients, inbox, inflight, wseq,
                              orphans>>
          ELSE /\ events' = u.events
               /\ wseq' = wseq + 1
               /\ UNCHANGED <<token_metrics, tool_metrics, findings, wstg_coverage,
                              sessions, rowids, orphans>>
               /\ IF hasResponseUrl(u.updated[1])
                  THEN /\ inflight' = inflight \cup {[event |-> u.updated[1], w |-> wseq + 1]}
                       /\ UNCHANGED <<wsClients, inbox, resp>>
                  ELSE /\ Publish("POST /events/:id/respond", "event", u.updated[1], wseq + 1)
                       /\ UNCHANGED inflight

\* What sendResponseToAgent sends for the suspended request r: ws.send of the
\* response to the event's responseWebSocketUrl.
agentMessage(r) ==
    [url |-> r.event.humanInTheLoop[1].responseWebSocketUrl[1],
     response |-> r.event.humanInTheLoopStatus[1].response[1]]

\* POST /events/:id/respond from the point where sendResponseToAgent has
\* resolved (the response was sent): broadcast and respond.
RespondDelivered(r) ==
    /\ r \in inflight
    /\ inflight' = inflight \ {r}
    /\ agentInbox' = Append(agentInbox, agentMessage(r))
    /\ Publish("POST /events/:id/respond", "event", r.event, r.w)
    /\ UNCHANGED <<store, socket, now, nreq, budget, viewer, sends, wseq, orphans>>

\* A faulty respond handler: the rejection of sendResponseToAgent is not caught
\* where it is awaited and reaches the handler's outer catch.
RespondFailedSurfacing(r, sent) ==
    /\ r \in inflight
    /\ inflight' = inflight \ {r}
    /\ agentInbox' = IF sent THEN Append(agentInbox, agentMessage(r)) ELSE agentInbox
    /\ resp' = Response("POST /events/:id/respond", 400, Some("Invalid request"), None)
    /\ UNCHANGED <<store, wsClients, inbox, socket, now, nreq, budget, viewer, sends, wseq, orphans>>

\* POST /events/:id/respond from the point where sendResponseToAgent has
\* rejected (connection error, send error, the 5 s timeout; `sent` when the
\* error came after ws.send went through): the catch logs, then broadcast and
\* respond as before.
RespondFailed(r, sent) ==
    /\ r \in inflight
    /\ inflight' = inflight \ {r}
    /\ agentInbox' = IF sent THEN Append(agentInbox, agentMessage(r)) ELSE agentInbox
    /\ Publish("POST /events/:id/respond", "event", r.event, r.w)
    /\ UNCHANGED <<store, socket, now, nreq, budget, viewer, sends, wseq, orphans>>

\* History: the metric write to `table` found no row for its session_id.
Orphaned(table, sid) ==
    orphans' = IF SessionIndex(sessions, sid) = {} THEN orphans \cup {<<table, sid>>}
               ELSE orphans

\* POST /api/metrics/tokens
tokenValid(metric) == TruthyStr(metric.session_id) /\ TruthyStr(metric.source_app)

PostTokens(metric, clock) ==
    /\ Begin(tokenValid(metric) /\ ~TruthyNum(metric.timestamp), clock)
    /\ IF ~tokenValid(metric)
       THEN Reject("POST /api/metrics/tokens", 400, "Missing session_id or source_app")
       ELSE LET r == insertTokenMetric(metric, clock)
            IN /\ token_metrics' = r.token_metrics
               /\ sessions' = r.sessions
               /\ wseq' = wseq + 1
               /\ Publish("POST /api/metrics/tokens", "token_update", r.saved, wseq + 1)
               /\ Orphaned("token_metrics", metric.session_id)
               /\ UNCHANGED <<events, tool_metrics, findings, wstg_coverage, rowids,
                              inflight>>

\* A faulty required-field check of POST /api/metrics/tools: status is not
\* looked at.
toolValidIgnoringStatus(metric) ==
    /\ TruthyStr(metric.session_id)
    /\ TruthyStr(metric.source_app)
    /\ TruthyStr(metric.tool_name)

\* POST /api/metrics/tools
toolValid(metric) ==
    /\ TruthyStr(metric.session_id)
    /\ TruthyStr(metric.source_app)
    /\ TruthyStr(metric.tool_name)
    /\ TruthyStr(metric.status)

PostTools(metric, clock) ==
    /\ Begin(toolValid(metric) /\ ~TruthyNum(metric.timestamp), clock)
    /\ IF ~toolValid(metric)
       THEN Reject("POST /api/metrics/tools", 400, "Missing required fields")
       ELSE LET r == insertToolMetric(metric, clock)
            IN /\ tool_metrics' = r.tool_metrics
               /\ sessions' = r.sessions
               /\ wseq' = wseq + 1
               /\ Publish("POST /api/metrics/tools", "tool_update", r.saved, wseq + 1)
               /\ Orphaned("tool_metrics", metric.session_id)
               /\ UNCHANGED <<events, token_metrics, findings, wstg_coverage, rowids,
                              inflight>>

\* POST /api/metrics/findings
findingValid(finding) ==
    /\ TruthyStr(finding.session_id)
    /\ TruthyStr(finding.source_app)
    /\ TruthyStr(finding.finding_id)
    /\ TruthyStr(finding.vulnerability_type)

PostFindings(finding, clock) ==
    /\ Begin(findingValid(finding) /\ ~TruthyNum(finding.timestamp), clock)
    /\ IF ~findingValid(finding)
       THEN Reject("POST /api/metrics/findings", 400, "Missing required fields")
       ELSE LET r == insertFinding(finding, clock)
            IN /\ findings' = r.findings
               /\ sessions' = r.sessions
               /\ rowids' = [rowids EXCEPT !.findings = @ + 1]
               /\ wseq' = wseq + 1
               /\ Publish("POST /api/metrics/findings", "finding_update", r.saved, wseq + 1)
               /\ Orphaned("findings", finding.session_id)
               /\ UNCHANGED <<events, token_metrics, tool_metrics, wstg_coverage,
                              inflight>>

\* POST /api/metrics/wstg
coverageValid(coverage) ==
    /\ TruthyStr(coverage.session_id)
    /\ TruthyStr(coverage.source_app)
    /\ TruthyStr(coverage.wstg_id)
    /\ TruthyStr(coverage.status)

PostWstg(coverage, clock) ==
    /\ Begin(coverageValid(coverage) /\ ~TruthyNum(coverage.timestamp), clock)
    /\ IF ~coverageValid(coverage)
       THEN Reject("POST /api/metrics/wstg", 400, "Missing required fields")
       ELSE LET r == insertWSTGCoverage(coverage, clock)
            IN /\ wstg_coverage' = r.wstg_coverage
               /\ sessions' = r.sessions
               /\ rowids' = [rowids EXCEPT !.wstg_coverage = @ + 1]
               /\ wseq' = wseq + 1
               /\ Publish("POST /api/metrics/wstg", "wstg_update", r.saved, wseq + 1)
               /\ Orphaned("wstg_coverage", coverage.session_id)
               /\ UNCHANGED <<events, token_metrics, tool_metrics, findings, inflight>>

\* POST /api/sessions
sessionValid(session) == TruthyStr(session.session_id)

PostSessions(session, clock) ==
    /\ Begin(/\ sessionValid(session)
             /\ SessionIndex(sessions, session.session_id) = {}
             /\ ~TruthyNum(session.started_at), clock)
    /\ IF ~sessionValid(session)
       THEN Reject("POST /api/sessions", 400, "Missing session_id")
       ELSE LET r == upsertSession(session, clock)
            IN /\ sessions' = r.sessions
               /\ wseq' = wseq + 1
               /\ Publish("POST /api/sessions", "session_update", r.saved, wseq + 1)
               /\ UNCHANGED <<events, token_metrics, tool_metrics, findings,
                              wstg_coverage, rowids, inflight, orphans>>

\* POST /api/sessions/:id/agents: addAgentToSession, then the session is
\* returned; the handler has no broadcast loop.
PostSessionAgents(sid, agent, clock) ==
    /\ Begin(FALSE, clock)
    /\ IF ~TruthyStr(agent)
       THEN Reject("POST /api/sessions/:id/agents", 400, "Missing agent_name")
       ELSE LET table == addAgentToSession(Some(sid), agent[1])
            IN /\ sessions' = table
               /\ wseq' = IF table # sessions THEN wseq + 1 ELSE wseq
               /\ resp' = Response("POST /api/sessions/:id/agents", 200, None,
                                   getSessionOf(table, Some(sid)))
               /\ UNCHANGED <<events, token_metrics, tool_metrics, findings,
                              wstg_coverage, rowids, wsClients, inbox, inflight,
                              orphans>>

\* --------------------------------------------------------- WebSocket handlers
\* A faulty open handler: the connection is registered, no backlog is sent.
WsOpenWithoutBacklog(c) ==
    /\ socket[c] = "idle"
    /\ socket' = [socket EXCEPT ![c] = "open"]
    /\ wsClients' = SetAdd(wsClients, c)
    /\ UNCHANGED <<store, inbox, inflight, agentInbox, resp, now, nreq, budget, viewer, sends, wseq,
                   orphans>>

\* websocket.open(ws): register, then send the backlog.
WsOpen(c) ==
    /\ socket[c] = "idle"
    /\ socket' = [socket EXCEPT ![c] = "open"]
    /\ wsClients' = SetAdd(wsClients, c)
    /\ inbox' = [inbox EXCEPT ![c] =
                    Append(@, Msg("initial", getRecentEvents(RecentLimit), 0))]
    /\ UNCHANGED <<store, inflight, agentInbox, resp, now, nreq, budget, viewer, sends, wseq, orphans>>

\* The connection dies; no handler has run yet, sends to it throw.
SocketBreak(c) ==
    /\ socket[c] = "open"
    /\ socket' = [socket EXCEPT ![c] = "broken"]
    /\ UNCHANGED <<store, wsClients, inbox, inflight, agentInbox, resp, now, nreq,
                   budget, viewer, sends, wseq, orphans>>

\* A faulty close handler: the connection stays in the registry.
WsCloseKeepingClient(c) ==
    /\ socket[c] \in {"open", "broken", "errored"}
    /\ socket' = [socket EXCEPT ![c] = "closed"]
    /\ UNCHANGED <<store, wsClients, inbox, inflight, agentInbox, resp, now, nreq, budget,
                   viewer, sends, wseq, orphans>>

\* websocket.close(ws)
WsClose(c) ==
    /\ socket[c] \in {"open", "broken", "errored"}
    /\ socket' = [socket EXCEPT ![c] = "closed"]
    /\ wsClients' = SetDelete(wsClients, c)
    /\ UNCHANGED <<store, inbox, inflight, agentInbox, resp, now, nreq, budget, viewer, sends, wseq,
                   orphans>>

\* websocket.error(ws, error)
WsError(c) ==
    /\ socket[c] = "open"
    /\ socket' = [socket EXCEPT ![c] = "errored"]
    /\ wsClients' = SetDelete(wsClients, c)
    /\ UNCHANGED <<store, inbox, inflight, agentInbox, resp, now, nreq, budget, viewer, sends, wseq,
                   orphans>>

\* ------------------------------------------------------------------ inputs
SessionIds == {"s1", "s2"}
App == Some("agentA")

HitlRequest == [responseWebSocketUrl |-> Some("ws://agent")]

\* Bodies of POST /events that pass the required-field check.
ValidEvents ==
    {HookEvent(App, Some("s1"), Some("PreToolUse"), Some("{tool_name:Bash}"), ts, hitl, None) :
        ts \in {None, Some(1)}, hitl \in {None, Some(HitlRequest)}}

\* Bodies with one required field missing (undefined) or empty (falsy).
InvalidEvents ==
    LET e == HookEvent(App, Some("s1"), Some("PreToolUse"), Some("{tool_name:Bash}"),
                       None, None, None)
    IN UNION {{[e EXCEPT !.source_app = x], [e EXCEPT !.session_id = x],
               [e EXCEPT !.hook_event_type = x], [e EXCEPT !.payload = x]} :
                 x \in {None, Some("")}}

Answers == {"yes", "no"}

\* The metric bodies carry the timestamp their types declare.
ValidTokens ==
    {TokenMetric(Some(sid), App, None, t[1], t[2], t[1] + t[2], t[3], Some(1)) :
        sid \in SessionIds, t \in {<<1, 1, 1>>, <<2, 1, 2>>}}
InvalidTokens ==
    {TokenMetric(None, App, None, 1, 1, 2, 1, Some(1)),
     TokenMetric(Some("s1"), Some(""), None, 1, 1, 2, 1, Some(1))}

ValidTools ==
    {ToolMetric(Some(sid), App, Some("Bash"), None, Some(st), Some(5), None, None, None,
                Some(1)) :
        sid \in SessionIds, st \in {"success", "failure"}}
InvalidTools ==
    LET m == ToolMetric(Some("s1"), App, Some("Bash"), None, Some("success"), Some(5),
                        None, None, None, Some(1))
    IN {[m EXCEPT !.session_id = None], [m EXCEPT !.source_app = None],
        [m EXCEPT !.tool_name = Some("")], [m EXCEPT !.status = None]}

FindingIds == {"f1", "f2"}
ValidFindings ==
    {Finding(Some(sid), App, Some(fid), Some("xss"), sev, None, None, None, None, Some(1)) :
        sid \in SessionIds, fid \in FindingIds, sev \in {None, Some("high")}}
InvalidFindings ==
    LET f == Finding(Some("s1"), App, Some("f1"), Some("xss"), Some("high"), None, None,
                     None, None, Some(1))
    IN {[f EXCEPT !.session_id = None], [f EXCEPT !.source_app = Some("")],
        [f EXCEPT !.finding_id = None], [f EXCEPT !.vulnerability_type = None]}

ValidCoverage ==
    {WSTGCoverage(Some(sid), App, Some("WSTG-INPV-01"), Some(st), 0, Some(1)) :
        sid \in SessionIds, st \in {"executed", "skipped", "not_applicable"}}
InvalidCoverage ==
    LET c == WSTGCoverage(Some("s1"), App, Some("WSTG-INPV-01"), Some("executed"), 0,
                          Some(1))
    IN {[c EXCEPT !.session_id = None], [c EXCEPT !.source_app = None],
        [c EXCEPT !.wstg_id = None], [c EXCEPT !.status = Some("")]}

ValidSessions ==
    {SessionBody(Some(sid), None, None, st, Some(1), None, None) :
        sid \in SessionIds, st \in {None, Some("running"), Some("completed")}}
InvalidSessions ==
    {SessionBody(x, None, None, Some("running"), Some(1), None, None) :
        x \in {None, Some("")}}

AgentNames == {None, Some("recon"), Some("exploit")}

\* sendResponseToAgent has not been called.
NoCalls == <<>>

\* ------------------------------------------------------------ agent socket
\* The closure of one sendResponseToAgent call after `new Promise`: ws is the
\* readyState of its socket ("null" while no socket was constructed), timers
\* its pending setTimeout callbacks, promise the state of the returned
\* promise.  settled counts the resolve() and reject() calls and cause names
\* the path of the first (history).
Pending ==
    [ws |-> "null", isResolved |-> FALSE, timers |-> {}, promise |-> "pending",
     sent |-> FALSE, settled |-> 0, cause |-> "none"]

\* A faulty cleanup: the socket is left as it is.
cleanupLeavingSocket(call) == call

\* cleanup(): ws.close() when a socket was constructed; close() on a socket
\* that is closing or closed does nothing.
cleanup(call) ==
    IF call.ws \in {"CONNECTING", "OPEN"} THEN [call EXCEPT !.ws = "CLOSING"] ELSE call

\* if (!isResolved) { isResolved = true; resolve() / reject(error) }
settle(call, outcome, cause) ==
    IF call.isResolved THEN call
    ELSE [call EXCEPT !.isResolved = TRUE,
                      !.promise = IF @ = "pending" THEN outcome ELSE @,
                      !.settled = @ + 1,
                      !.cause = IF @ = "none" THEN cause ELSE @]

\* sendResponseToAgent(wsUrl, response) up to the return of the promise:
\* `throws` when new WebSocket(wsUrl) raises, which skips the 5 s timer.
sendResponseToAgent(throws) ==
    /\ Len(sends) < MaxCalls
    /\ sends' = Append(sends,
                       IF throws THEN settle(cleanup(Pending), "rejected", "constructor")
                       ELSE [Pending EXCEPT !.ws = "CONNECTING", !.timers = {"timeout"}])
    /\ UNCHANGED <<server, viewer>>

\* The open event of call k's socket: ws.onopen, `throws` when ws.send raises.
AgentOpens(k, throws) ==
    /\ sends[k].ws = "CONNECTING"
    /\ LET call == [sends[k] EXCEPT !.ws = "OPEN"]
       IN sends' = [sends EXCEPT ![k] =
              IF call.isResolved THEN call
              ELSE IF throws THEN settle(cleanup(call), "rejected", "send")
              ELSE [call EXCEPT !.sent = TRUE, !.timers = @ \cup {"transmit"}]]
    /\ UNCHANGED <<server, viewer>>

\* The connection of call k's socket fails: the error event (ws.onerror),
\* then the close event (ws.onclose only logs).
AgentErrors(k) ==
    /\ sends[k].ws \in {"CONNECTING", "OPEN", "CLOSING"}
    /\ sends' = [sends EXCEPT ![k] =
                    settle(cleanup([sends[k] EXCEPT !.ws = "CLOSED"]), "rejected", "error")]
    /\ UNCHANGED <<server, viewer>>

\* Call k's socket is closed by the agent or after ws.close(): ws.onclose.
AgentCloses(k) ==
    /\ sends[k].ws \in {"OPEN", "CLOSING"}
    /\ sends' = [sends EXCEPT ![k].ws = "CLOSED"]
    /\ UNCHANGED <<server, viewer>>

\* The callback set 500 ms after the send runs.
TransmitTimer(k) ==
    /\ "transmit" \in sends[k].timers
    /\ sends' = [sends EXCEPT ![k] =
                    settle(cleanup([sends[k] EXCEPT !.timers = @ \ {"transmit"}]),
                           "resolved", "transmit")]
    /\ UNCHANGED <<server, viewer>>

\* The callback of the 5 s timeout runs.
TimeoutTimer(k) ==
    /\ "timeout" \in sends[k].timers
    /\ LET call == [sends[k] EXCEPT !.timers = @ \ {"timeout"}]
       IN sends' = [sends EXCEPT ![k] =
              IF call.isResolved THEN call
              ELSE settle(cleanup(call), "rejected", "timeout")]
    /\ UNCHANGED <<server, viewer>>

\* --------------------------------------------------------- dashboard client
\* useWebSocket(url): the closure before onMounted runs.  `sockets` are the
\* WebSocket objects the instance has constructed (their readyState), `ws` the
\* index of the one the variable ws refers to (0 for null), `timers` the
\* pending window.setTimeout callbacks.  lifecycle and owed are history: owed
\* holds from a failure until `new WebSocket` is called again.
useWebSocket ==
    [events |-> <<>>, isConnected |-> FALSE, error |-> None,
     sockets |-> <<>>, ws |-> 0, reconnectTimeout |-> None, timers |-> {},
     reconnectAttempts |-> 0, isCleaningUp |-> FALSE,
     lifecycle |-> "created", ntimers |-> 0, nmsg |-> 0, owed |-> FALSE]

RECURSIVE pow2(_)
pow2(n) == IF n = 0 THEN 1 ELSE 2 * pow2(n - 1)

\* getReconnectDelay = () => Math.min(1000 * Math.pow(2, reconnectAttempts), 30000)
getReconnectDelay(c) ==
    IF BaseDelay * pow2(c.reconnectAttempts) < MaxDelay
    THEN BaseDelay * pow2(c.reconnectAttempts) ELSE MaxDelay

\* ws && (ws.readyState === CONNECTING || ws.readyState === OPEN)
hasLiveSocket(c) == c.ws # 0 /\ c.sockets[c.ws] \in {"CONNECTING", "OPEN"}

\* connect(): `throws` when new WebSocket(url) raises an exception.
connect(c, throws) ==
    IF c.isCleaningUp \/ hasLiveSocket(c) THEN c
    ELSE IF throws
         THEN [c EXCEPT !.error = Some("Failed to connect to server"), !.owed = TRUE]
         ELSE [c EXCEPT !.sockets = Append(@, "CONNECTING"),
                        !.ws = Len(c.sockets) + 1,
                        !.owed = FALSE]

\* ws.onopen
onopen(c) ==
    [c EXCEPT !.isConnected = TRUE, !.error = None, !.reconnectAttempts = 0]

\* ws.onerror
onerror(c) == [c EXCEPT !.error = Some("WebSocket connection error")]

\* ws.onclose: the reconnect is scheduled unless the instance is cleaning up.
onclose(c) ==
    IF c.isCleaningUp THEN [c EXCEPT !.isConnected = FALSE]
    ELSE LET counted == [c EXCEPT !.isConnected = FALSE,
                                  !.reconnectAttempts = @ + 1]
             timer == [id |-> c.ntimers + 1, delay |-> getReconnectDelay(counted)]
         IN [counted EXCEPT !.timers = @ \cup {timer},
                            !.ntimers = timer.id,
                            !.reconnectTimeout = Some(timer.id),
                            !.owed = TRUE]

\* Array.prototype.slice(start) for start >= 0.
sliceFrom(list, start) ==
    IF start >= Len(list) THEN <<>> ELSE SubSeq(list, start + 1, Len(list))

\* Array.prototype.slice(-n): the last n entries; slice(-0) is slice(0).
sliceLast(list, n) ==
    IF n = 0 \/ n >= Len(list) THEN list ELSE SubSeq(list, Len(list) - n + 1, Len(list))

\* ws.onmessage: messages of other types and unparsable ones change nothing.
onmessage(c, message) ==
    IF message.type = "initial"
    THEN [c EXCEPT !.events = sliceLast(message.data, maxEvents)]
    ELSE IF message.type = "event"
    THEN LET pushed == Append(c.events, message.data)
         IN [c EXCEPT !.events =
                 IF Len(pushed) > maxEvents
                 THEN sliceFrom(pushed, Len(pushed) - maxEvents + Trimmed)
                 ELSE pushed]
    ELSE c

\* A faulty disconnect: isCleaningUp is not set.
disconnectKeepingFlag(c) ==
    LET cleared == IF c.reconnectTimeout # None
                   THEN {t \in c.timers : t.id # c.reconnectTimeout[1]} ELSE c.timers
        closed == IF c.ws # 0 /\ c.sockets[c.ws] \in {"CONNECTING", "OPEN"}
                  THEN [c.sockets EXCEPT ![c.ws] = "CLOSING"] ELSE c.sockets
    IN [c EXCEPT !.timers = cleared, !.reconnectTimeout = None,
                 !.sockets = closed, !.ws = 0]

\* disconnect(): ws.close() starts the closing handshake of a socket that is
\* connecting or open.
disconnect(c) ==
    LET cleared == IF c.reconnectTimeout # None
                   THEN {t \in c.timers : t.id # c.reconnectTimeout[1]} ELSE c.timers
        closed == IF c.ws # 0 /\ c.sockets[c.ws] \in {"CONNECTING", "OPEN"}
                  THEN [c.sockets EXCEPT ![c.ws] = "CLOSING"] ELSE c.sockets
    IN [c EXCEPT !.isCleaningUp = TRUE, !.timers = cleared, !.reconnectTimeout = None,
                 !.sockets = closed, !.ws = 0]

\* onMounted(() => connect())
Mounted(throws) ==
    /\ viewer.lifecycle = "created"
    /\ viewer' = connect([viewer EXCEPT !.lifecycle = "mounted"], throws)
    /\ UNCHANGED <<server, sends>>

\* onUnmounted(() => disconnect())
Unmounted ==
    /\ viewer.lifecycle = "mounted"
    /\ viewer' = disconnect([viewer EXCEPT !.lifecycle = "unmounted"])
    /\ UNCHANGED <<server, sends>>

\* The connection of socket i is established: its open event.
SocketOpens(i) ==
    /\ viewer.sockets[i] = "CONNECTING"
    /\ viewer' = onopen([viewer EXCEPT !.sockets[i] = "OPEN"])
    /\ UNCHANGED <<server, sends>>

\* The connection of socket i is closed or has failed (`failed`: the error
\* event comes before the close event in the same task).  The sockets one
\* behaviour may construct are bounded: the last of them is closed by
\* disconnect() only.
SocketCloses(i, failed) ==
    /\ viewer.sockets[i] \in {"CONNECTING", "OPEN", "CLOSING"}
    /\ viewer.sockets[i] = "CLOSING" \/ Len(viewer.sockets) < MaxSockets
    /\ LET gone == [viewer EXCEPT !.sockets[i] = "CLOSED"]
       IN viewer' = onclose(IF failed THEN onerror(gone) ELSE gone)
    /\ UNCHANGED <<server, sends>>

\* The callback of a pending reconnect timer runs: connect().
TimerFires(t, throws) ==
    /\ t \in viewer.timers
    /\ viewer' = connect([viewer EXCEPT !.timers = @ \ {t}], throws)
    /\ UNCHANGED <<server, sends>>

\* The messages the server sends: the initial list (ids 1..n), one event, an
\* update of another type.
ServerMessages ==
    {[type |-> "initial", data |-> [k \in 1..n |-> k]] : n \in {0, maxEvents - 1, maxEvents}}
      \cup {[type |-> "event", data |-> maxEvents + viewer.nmsg + 1],
            [type |-> "token_update", data |-> 0]}

\* Socket i delivers a message: its message event.
SocketMessage(i, message) ==
    /\ viewer.sockets[i] = "OPEN"
    /\ viewer.nmsg < MaxMessages
    /\ viewer' = onmessage([viewer EXCEPT !.nmsg = @ + 1], message)
    /\ UNCHANGED <<server, sends>>

\* ----------------------------------------------------------- specifications
NoResponse == Response("none", 0, None, None)

\* The server after initDatabase() on an empty database file, with `requests`
\* HTTP requests and the connections `conns` still to come.
Setup(requests, conns) ==
    /\ events = <<>>
    /\ token_metrics = <<>>
    /\ tool_metrics = <<>>
    /\ findings = <<>>
    /\ wstg_coverage = <<>>
    /\ sessions = <<>>
    /\ rowids = [findings |-> 0, wstg_coverage |-> 0]
    /\ wsClients = <<>>
    /\ socket = [c \in Clients |-> IF c \in conns THEN "idle" ELSE "closed"]
    /\ inbox = [c \in Clients |-> <<>>]
    /\ inflight = {}
    /\ agentInbox = <<>>
    /\ resp = NoResponse
    /\ now = 1
    /\ nreq = 0
    /\ budget = requests
    /\ viewer = useWebSocket
    /\ sends = NoCalls
    /\ wseq = 0
    /\ orphans = {}

EventRequests ==
    \/ \E e \in ValidEvents \cup InvalidEvents, t \in ClockReadings : PostEvents(e, t)
    \/ \E id \in 1..(Len(events) + 1), a \in Answers, t \in ClockReadings :
          PostRespond(id, a, t)
    \/ \E r \in inflight : RespondDelivered(r)
    \/ \E r \in inflight, sent \in BOOLEAN : RespondFailed(r, sent)

SessionRequests ==
    \/ \E s \in ValidSessions \cup InvalidSessions, t \in ClockReadings : PostSessions(s, t)
    \/ \E sid \in SessionIds, a \in AgentNames, t \in ClockReadings :
          PostSessionAgents(sid, a, t)

TokenRequests ==
    \E m \in ValidTokens \cup InvalidTokens, t \in ClockReadings : PostTokens(m, t)

ToolRequests ==
    \E m \in ValidTools \cup InvalidTools, t \in ClockReadings : PostTools(m, t)

FindingRequests ==
    \E f \in ValidFindings \cup InvalidFindings, t \in ClockReadings : PostFindings(f, t)

CoverageRequests ==
    \E c \in ValidCoverage \cup InvalidCoverage, t \in ClockReadings : PostWstg(c, t)

Connections ==
    \/ \E c \in Clients : WsOpen(c)
    \/ \E c \in Clients : SocketBreak(c)
    \/ \E c \in Clients : WsClose(c)
    \/ \E c \in Clients : WsError(c)

\* The whole server: every write endpoint and one dashboard connection.
Init == Setup(MaxRequests, {"c1"})
Next ==
    \/ EventRequests
    \/ SessionRequests
    \/ TokenRequests
    \/ ToolRequests
    \/ FindingRequests
    \/ CoverageRequests
    \/ Connections
Spec == Init /\ [][Next]_vars

\* Events, HITL responses and the fan-out to two dashboard connections.
InitEvents == Setup(MaxEventRequests, Clients)
NextEvents == EventRequests \/ Connections
SpecEvents == InitEvents /\ [][NextEvents]_vars

\* Events and HITL responses that overlap, one dashboard connection.
InitHitl == Setup(MaxHitlRequests, {"c1"})
NextHitl == EventRequests \/ Connections
SpecHitl == InitHitl /\ [][NextHitl]_vars

\* Sessions and token metrics, no dashboard connected.
InitTokens == Setup(MaxMetricRequests, {})
NextTokens == SessionRequests \/ TokenRequests
SpecTokens == InitTokens /\ [][NextTokens]_vars

\* Sessions and findings, no dashboard connected.
InitFindings == Setup(MaxMetricRequests, {})
NextFindings == SessionRequests \/ FindingRequests
SpecFindings == InitFindings /\ [][NextFindings]_vars

\* GET /events/recent?limit=N (limit defaults to 300)
GetRecent(limit) ==
    /\ Begin(FALSE, now)
    /\ resp' = Response("GET /events/recent", 200, None, Some(getRecentEvents(limit)))
    /\ UNCHANGED <<store, wsClients, inbox, inflight, wseq, orphans>>

\* The limits the readers ask for.
Limits == 0..MaxRecentRequests \cup {RecentLimit}

\* Events posted with and without a timestamp of their own, and the readers of
\* the recent-events list.
InitRecent == Setup(MaxRecentRequests, {})
NextRecent ==
    \/ \E e \in ValidEvents, t \in ClockReadings : PostEvents(e, t)
    \/ \E n \in Limits : GetRecent(n)
SpecRecent == InitRecent /\ [][NextRecent]_vars

\* Sessions and coverage records, no dashboard connected.
InitCoverage == Setup(MaxMetricRequests, {})
NextCoverage == SessionRequests \/ CoverageRequests
SpecCoverage == InitCoverage /\ [][NextCoverage]_vars

\* ------------------------------------------------------------------ reports
\* url.searchParams.get('session_id') || undefined
sessionIdParam(query) == IF TruthyStr(query) THEN query ELSE None

\* The rows a report reads: WHERE session_id = ? when a sessionId is given.
rowsOf(table, sessionId) ==
    IF sessionId = None THEN table
    ELSE SelectSeq(table, LAMBDA r : r.session_id = sessionId)

\* SUM(CASE WHEN status = ? THEN 1 ELSE 0 END): NULL over no rows.
sumStatus(rows, status) ==
    IF rows = <<>> THEN None
    ELSE Some(Cardinality({i \in 1..Len(rows) : rows[i].status = Some(status)}))

\* null - n, n - null and null > 0 in JavaScript: null counts as 0.
numberOf(m) == IF m = None THEN 0 ELSE m[1]

WstgIds == {"WSTG-INPV-01", "WSTG-INPV-05", "WSTG-ATHZ-01"}

\* The characters of each wstg_id text of the model.
characters(text) ==
    CASE text = "WSTG-INPV-01" ->
            <<"W", "S", "T", "G", "-", "I", "N", "P", "V", "-", "0", "1">>
      [] text = "WSTG-INPV-05" ->
            <<"W", "S", "T", "G", "-", "I", "N", "P", "V", "-", "0", "5">>
      [] text = "WSTG-ATHZ-01" ->
            <<"W", "S", "T", "G", "-", "A", "T", "H", "Z", "-", "0", "1">>
      [] text = "OTG-AUTHN-001" ->
            <<"O", "T", "G", "-", "A", "U", "T", "H", "N", "-", "0", "0", "1">>
      [] text = "API-AUTH-01" ->
            <<"A", "P", "I", "-", "A", "U", "T", "H", "-", "0", "1">>

\* SQLite SUBSTR(X, Y, Z) for Y >= 1: the Z characters from the Y-th on, or
\* as many as X has.
SUBSTR(chars, start, length) ==
    SubSeq(chars, start, IF start + length - 1 <= Len(chars) THEN start + length - 1
                         ELSE Len(chars))

\* The TEXT value made of the characters.
RECURSIVE textOf(_)
textOf(chars) == IF chars = <<>> THEN "" ELSE Head(chars) \o textOf(Tail(chars))

\* SUBSTR(wstg_id, 6, 4) as category
categoryOf(wid) == textOf(SUBSTR(characters(wid[1]), 6, 4))

\* getWSTGCoverageReport(sessionId)
getWSTGCoverageReport(table, sessionId) ==
    LET rows == rowsOf(table, sessionId)
        executed == sumStatus(rows, "executed")
        not_applicable == sumStatus(rows, "not_applicable")
        applicableTests == Len(rows) - numberOf(not_applicable)
        categories == {categoryOf(rows[i].wstg_id) : i \in 1..Len(rows)}
        inCategory(c) == SelectSeq(rows, LAMBDA r : categoryOf(r.wstg_id) = c)
    IN [total_tests |-> Len(rows),
        executed |-> executed,
        skipped |-> sumStatus(rows, "skipped"),
        partial |-> sumStatus(rows, "partial"),
        not_applicable |-> not_applicable,
        coverage_percentage |->
            IF applicableTests > 0
            THEN fmul(fdiv(numberOf(executed), applicableTests), 100)
            ELSE Zero,
        by_category |->
            [c \in categories |->
                [executed |-> numberOf(sumStatus(inCategory(c), "executed")),
                 total |-> Len(inCategory(c)),
                 percentage |->
                     fmul(fdiv(numberOf(sumStatus(inCategory(c), "executed")),
                               Len(inCategory(c))), 100)]]]

\* GET /api/metrics/wstg
GetWstg(query) ==
    /\ Begin(FALSE, now)
    /\ resp' = Response("GET /api/metrics/wstg", 200, None,
                        Some(getWSTGCoverageReport(wstg_coverage, sessionIdParam(query))))
    /\ UNCHANGED <<store, wsClients, inbox, inflight, wseq, orphans>>

\* The coverage of one session over three tests, and its report.
ReportCoverage ==
    {WSTGCoverage(Some("s1"), App, Some(w), Some(st), 0, Some(1)) :
        w \in WstgIds, st \in {"executed", "skipped", "not_applicable"}}
ReportSessions == {SessionBody(Some("s1"), None, None, None, Some(1), None, None)}
ReportQueries == {None, Some(""), Some("s1")}

InitCoverageReport == Setup(MaxReportRequests, {})
NextCoverageReport ==
    \/ \E s \in ReportSessions, t \in ClockReadings : PostSessions(s, t)
    \/ \E c \in ReportCoverage, t \in ClockReadings : PostWstg(c, t)
    \/ \E q \in ReportQueries : GetWstg(q)
SpecCoverageReport == InitCoverageReport /\ [][NextCoverageReport]_vars

\* The tool names a report groups by, in the order GROUP BY tool_name yields.
ToolNames == <<"Bash", "Read">>

\* SUM(CASE WHEN duration_ms IS NOT NULL THEN duration_ms ELSE 0 END)
RECURSIVE sumDuration(_)
sumDuration(calls) ==
    IF calls = <<>> THEN 0
    ELSE numberOf(Head(calls).duration_ms) + sumDuration(Tail(calls))

\* A faulty report row: the success rate leaves the calls that timed out
\* out of its denominator.
toolReportRowRatingFinishedCalls(tool, calls) ==
    LET count(status) == Cardinality({i \in 1..Len(calls) : calls[i].status = Some(status)})
        success_count == count("success")
    IN [tool_name |-> tool,
        total_calls |-> Len(calls),
        success_count |-> success_count,
        failure_count |-> count("failure"),
        timeout_count |-> count("timeout"),
        success_rate |-> IF success_count + count("failure") > 0
                         THEN fmul(fdiv(success_count,
                                        success_count + count("failure")), 100)
                         ELSE Zero,
        avg_duration_ms |-> fdiv(sumDuration(calls), Len(calls)),
        vulnerabilities_found |->
            Cardinality({i \in 1..Len(calls) : calls[i].found_vulnerability = 1})]

\* One row of getToolEffectivenessReport: the aggregates over the calls of a
\* tool.  AVG(CASE WHEN duration_ms IS NOT NULL THEN duration_ms ELSE 0 END)
\* divides the sum of the durations, NULL counted as 0, by the number of rows.
toolReportRow(tool, calls) ==
    LET count(status) == Cardinality({i \in 1..Len(calls) : calls[i].status = Some(status)})
        success_count == count("success")
    IN [tool_name |-> tool,
        total_calls |-> Len(calls),
        success_count |-> success_count,
        failure_count |-> count("failure"),
        timeout_count |-> count("timeout"),
        success_rate |-> IF Len(calls) > 0
                         THEN fmul(fdiv(success_count, Len(calls)), 100) ELSE Zero,
        avg_duration_ms |-> fdiv(sumDuration(calls), Len(calls)),
        vulnerabilities_found |->
            Cardinality({i \in 1..Len(calls) : calls[i].found_vulnerability = 1})]

\* getToolEffectivenessReport(sessionId): GROUP BY tool_name ORDER BY total_calls DESC
getToolEffectivenessReport(table, sessionId) ==
    LET rows == rowsOf(table, sessionId)
        callsOf(tool) == SelectSeq(rows, LAMBDA r : r.tool_name = Some(tool))
        groups == SelectSeq(ToolNames, LAMBDA tool : callsOf(tool) # <<>>)
        report == [i \in 1..Len(groups) |-> toolReportRow(Some(groups[i]), callsOf(groups[i]))]
    IN SortSeq(report, LAMBDA a, b : a.total_calls > b.total_calls)

\* GET /api/metrics/tools
GetTools(query) ==
    /\ Begin(FALSE, now)
    /\ resp' = Response("GET /api/metrics/tools", 200, None,
                        Some(getToolEffectivenessReport(tool_metrics, sessionIdParam(query))))
    /\ UNCHANGED <<store, wsClients, inbox, inflight, wseq, orphans>>

\* Calls of two tools in two sessions, with and without a duration.
ReportTools ==
    {ToolMetric(Some(c[1]), App, Some(c[2]), None, Some(c[3]), c[4], None, None, None,
                Some(1)) :
        c \in {<<"s1", "Bash", "success", Some(MaxDuration)>>,
               <<"s1", "Bash", "success", None>>,
               <<"s1", "Bash", "failure", Some(MaxDuration - 1)>>,
               <<"s1", "Bash", "timeout", None>>,
               <<"s1", "Read", "success", Some(1)>>,
               <<"s2", "Bash", "failure", Some(0)>>,
               <<"s2", "Read", "timeout", None>>}}
ToolQueries == {None, Some(""), Some("s1"), Some("s2")}

InitToolReport == Setup(MaxReportRequests, {})
NextToolReport ==
    \/ \E m \in ReportTools, t \in ClockReadings : PostTools(m, t)
    \/ \E q \in ToolQueries : GetTools(q)
SpecToolReport == InitToolReport /\ [][NextToolReport]_vars

\* GET /api/sessions/:id
GetSession(sid) ==
    /\ Begin(FALSE, now)
    /\ LET session == getSession(Some(sid))
       IN resp' = IF session = None
                  THEN Response("GET /api/sessions/:id", 404, Some("Session not found"), None)
                  ELSE Response("GET /api/sessions/:id", 200, None, session)
    /\ UNCHANGED <<store, wsClients, inbox, inflight, wseq, orphans>>

\* The writes that feed the aggregates of session s1, and its reader.
AggregateTokens == {TokenMetric(Some("s1"), App, None, 1, 1, 2, 1, Some(1))}
AggregateTools ==
    {ToolMetric(Some("s1"), App, Some("Bash"), None, Some("success"), Some(1), None, None,
                None, Some(1))}
AggregateFindings ==
    {Finding(Some(c[1]), App, Some(c[2]), Some("xss"), None, None, None, None, None, Some(1)) :
        c \in {<<"s1", "f1">>, <<"s1", "f2">>, <<"s2", "f1">>}}
AggregateCoverage ==
    {WSTGCoverage(Some("s1"), App, Some("WSTG-INPV-01"), Some(st), 0, Some(1)) :
        st \in {"executed", "skipped"}}

InitAggregates == Setup(MaxAggregateRequests, {})
NextAggregates ==
    \/ \E s \in ReportSessions, t \in ClockReadings : PostSessions(s, t)
    \/ \E m \in AggregateTokens, t \in ClockReadings : PostTokens(m, t)
    \/ \E m \in AggregateTools, t \in ClockReadings : PostTools(m, t)
    \/ \E f \in AggregateFindings, t \in ClockReadings : PostFindings(f, t)
    \/ \E c \in AggregateCoverage, t \in ClockReadings : PostWstg(c, t)
    \/ GetSession("s1")
SpecAggregates == InitAggregates /\ [][NextAggregates]_vars

\* POST /api/metrics/tokens when a statement of insertTokenMetric throws
\* (SQLITE_FULL, SQLITE_IOERR, SQLITE_BUSY): `ran` statements ran before it,
\* each committed on its own since no transaction is open; the handler's catch
\* answers 400 and the broadcast is not reached.
PostTokensStorageError(metric, clock, ran) ==
    /\ tokenValid(metric)
    /\ Begin(~TruthyNum(metric.timestamp), clock)
    /\ token_metrics' = IF ran = 0 THEN token_metrics
                        ELSE insertTokenMetric(metric, clock).token_metrics
    /\ IF ran = 0 THEN UNCHANGED orphans ELSE Orphaned("token_metrics", metric.session_id)
    /\ resp' = Response("POST /api/metrics/tokens", 400, Some("Invalid request"), None)
    /\ UNCHANGED <<events, tool_metrics, findings, wstg_coverage, sessions, rowids,
                   wsClients, inbox, inflight, wseq>>

\* Token metrics written while the storage may fail.
InitStorage == Setup(MaxMetricRequests, {})
NextStorage ==
    \/ \E s \in ReportSessions, t \in ClockReadings : PostSessions(s, t)
    \/ \E m \in ValidTokens, t \in ClockReadings : PostTokens(m, t)
    \/ \E m \in ValidTokens, t \in ClockReadings, ran \in {0, 1} :
          PostTokensStorageError(m, t, ran)
SpecStorage == InitStorage /\ [][NextStorage]_vars

\* SUM(column) over rows: 0 where the query wraps it in COALESCE(..., 0).
RECURSIVE sumColumn(_, _)
sumColumn(rows, column) ==
    IF rows = <<>> THEN 0 ELSE Head(rows)[column] + sumColumn(Tail(rows), column)

\* SELECT column, SUM(total_tokens), SUM(estimated_cost) ... GROUP BY column,
\* collected into an object keyed by the column; a NULL key is left out where
\* the loop tests it.
tokensBy(rows, column) ==
    LET groups == {rows[i][column] : i \in 1..Len(rows)} \ {None}
        groupOf(key) == SelectSeq(rows, LAMBDA r : r[column] = Some(key))
    IN [key \in {g[1] : g \in groups} |->
           [tokens |-> sumColumn(groupOf(key), "total_tokens"),
            cost |-> sumColumn(groupOf(key), "estimated_cost")]]

\* getTokenSummary(sessionId)
getTokenSummary(table, sessionId) ==
    LET rows == rowsOf(table, sessionId)
    IN [session_id |-> sessionId,
        total_input_tokens |-> sumColumn(rows, "input_tokens"),
        total_output_tokens |-> sumColumn(rows, "output_tokens"),
        total_tokens |-> sumColumn(rows, "total_tokens"),
        total_cost |-> sumColumn(rows, "estimated_cost"),
        by_model |-> tokensBy(rows, "model_name"),
        by_agent |-> tokensBy(rows, "source_app")]

\* SELECT column, COUNT(*) ... GROUP BY column, collected by
\* `object[row.column || 'unknown'] = row.count`: the groups come in the order
\* of the column (NULL, then '', then the other texts) and a later group
\* overwrites an earlier one that has the same key.
countBy(rows, column) ==
    LET groups == {rows[i][column] : i \in 1..Len(rows)}
        keyOf(g) == IF TruthyStr(g) THEN g[1] ELSE "unknown"
        count(g) == Cardinality({i \in 1..Len(rows) : rows[i][column] = g})
    IN [key \in {keyOf(g) : g \in groups} |->
           IF Some(key) \in groups THEN count(Some(key))
           ELSE IF Some("") \in groups THEN count(Some(""))
           ELSE count(None)]

\* getFindingSummary(sessionId)
getFindingSummary(table, sessionId) ==
    LET rows == rowsOf(table, sessionId)
    IN [total_findings |-> Len(rows),
        by_severity |-> countBy(rows, "severity"),
        by_type |-> countBy(rows, "vulnerability_type"),
        by_agent |-> countBy(rows, "source_app"),
        by_confidence |-> countBy(rows, "confidence")]

\* A faulty dashboard: the tools section is read before the latest tool call
\* was written, the other sections after it.
getMetricsDashboardAcrossWrite(sessionId) ==
    [sessions |-> [total |-> Len(sessions),
                   running |-> sumStatus(sessions, "running"),
                   completed |-> sumStatus(sessions, "completed"),
                   failed |-> sumStatus(sessions, "failed")],
     tokens |-> getTokenSummary(token_metrics, sessionId),
     findings |-> getFindingSummary(findings, sessionId),
     tools |-> getToolEffectivenessReport(Prefix(tool_metrics, Len(tool_metrics) - 1),
                                          sessionId),
     wstg |-> getWSTGCoverageReport(wstg_coverage, sessionId)]

\* getMetricsDashboard(sessionId): five queries run back to back.
getMetricsDashboard(sessionId) ==
    [sessions |-> [total |-> Len(sessions),
                   running |-> sumStatus(sessions, "running"),
                   completed |-> sumStatus(sessions, "completed"),
                   failed |-> sumStatus(sessions, "failed")],
     tokens |-> getTokenSummary(token_metrics, sessionId),
     findings |-> getFindingSummary(findings, sessionId),
     tools |-> getToolEffectivenessReport(tool_metrics, sessionId),
     wstg |-> getWSTGCoverageReport(wstg_coverage, sessionId)]

\* A GET handler: the response carries what the query returns, nothing is
\* written and nothing is broadcast.
Read(endpoint, body) ==
    /\ Begin(FALSE, now)
    /\ resp' = Response(endpoint, 200, None, Some(body))
    /\ UNCHANGED <<store, wsClients, inbox, inflight, wseq, orphans>>

\* A faulty GET /api/metrics/tokens: the rows read are consumed.
GetTokensDraining(query) ==
    /\ Begin(FALSE, now)
    /\ resp' = Response("GET /api/metrics/tokens", 200, None,
                        Some(getTokenSummary(token_metrics, sessionIdParam(query))))
    /\ token_metrics' = rowsOf(token_metrics, Some("none"))
    /\ UNCHANGED <<events, tool_metrics, findings, wstg_coverage, sessions, rowids,
                   wsClients, inbox, inflight, wseq, orphans>>

\* GET /api/metrics/tokens
GetTokens(query) ==
    Read("GET /api/metrics/tokens", getTokenSummary(token_metrics, sessionIdParam(query)))

\* GET /api/metrics/findings without list=true
GetFindingSummary(query) ==
    Read("GET /api/metrics/findings", getFindingSummary(findings, sessionIdParam(query)))

\* GET /api/metrics/dashboard
GetDashboard(query) ==
    Read("GET /api/metrics/dashboard", getMetricsDashboard(sessionIdParam(query)))

\* Findings with and without a severity and a confidence.
ReadFindings ==
    {Finding(Some(c[1]), App, Some(c[2]), Some("xss"), c[3], c[4], None, None, None, Some(1)) :
        c \in {<<"s1", "f1", None, None>>,
               <<"s1", "f2", Some("high"), Some("confirmed")>>,
               <<"s2", "f1", Some("high"), None>>}}
ReadQueries == {None, Some("s1")}

\* The metric writes and every aggregation read.
InitReads == Setup(MaxReadRequests, {})
NextReads ==
    \/ \E s \in ReportSessions, t \in ClockReadings : PostSessions(s, t)
    \/ \E m \in AggregateTokens, t \in ClockReadings : PostTokens(m, t)
    \/ \E m \in AggregateTools, t \in ClockReadings : PostTools(m, t)
    \/ \E f \in ReadFindings, t \in ClockReadings : PostFindings(f, t)
    \/ \E c \in AggregateCoverage, t \in ClockReadings : PostWstg(c, t)
    \/ \E q \in ReadQueries : GetTokens(q)
    \/ \E q \in ReadQueries : GetTools(q)
    \/ \E q \in ReadQueries : GetFindingSummary(q)
    \/ \E q \in ReadQueries : GetWstg(q)
    \/ \E q \in ReadQueries : GetDashboard(q)
SpecReads == InitReads /\ [][NextReads]_vars

\* ------------------------------------------------------------ filter options
\* The texts of each column of the events table in the order of ORDER BY (the
\* BINARY collation): the session ids are the numerals 1001, 1002, ...
SourceAppOrder == <<"agentA", "agentB">>
HookEventTypeOrder == <<"PostToolUse", "PreToolUse">>
SessionIdOrder == [n \in 1..(FilterLimit + 2) |-> ToString(1000 + n)]

\* SELECT DISTINCT column FROM events ORDER BY column, mapped to the column.
distinctOrdered(table, column, order) ==
    SelectSeq(order, LAMBDA text : \E i \in 1..Len(table) : table[i][column] = Some(text))

\* getFilterOptions(): session_ids are ORDER BY session_id DESC LIMIT 300.
getFilterOptionsOf(table) ==
    [source_apps |-> distinctOrdered(table, "source_app", SourceAppOrder),
     session_ids |-> Prefix(Reverse(distinctOrdered(table, "session_id", SessionIdOrder)),
                            FilterLimit),
     hook_event_types |-> distinctOrdered(table, "hook_event_type", HookEventTypeOrder)]

\* GET /events/filter-options
GetFilterOptions ==
    Read("GET /events/filter-options", getFilterOptionsOf(events))

\* The events table an earlier run of the server left in the database file:
\* one event for each of FilterLimit sessions, 1002 the oldest.
StoredEvents ==
    [i \in 1..FilterLimit |->
        [id |-> i,
         source_app |-> App,
         session_id |-> Some(SessionIdOrder[i + 1]),
         hook_event_type |-> Some("PreToolUse"),
         payload |-> Stringify(Some("{tool_name:Bash}")),
         timestamp |-> i,
         humanInTheLoop |-> None,
         humanInTheLoopStatus |-> None]]

\* Events of a session older, among and newer than the stored ones by name.
FilterEvents ==
    {HookEvent(Some(sa), Some(SessionIdOrder[n]), Some(het), Some("{tool_name:Bash}"),
               None, None, None) :
        sa \in {"agentA", "agentB"}, n \in {1, 2, FilterLimit + 2},
        het \in {"PreToolUse", "PostToolUse"}}

\* The server started on that database file.
InitFilter ==
    /\ events = StoredEvents
    /\ token_metrics = <<>>
    /\ tool_metrics = <<>>
    /\ findings = <<>>
    /\ wstg_coverage = <<>>
    /\ sessions = <<>>
    /\ rowids = [findings |-> 0, wstg_coverage |-> 0]
    /\ wsClients = <<>>
    /\ socket = [c \in Clients |-> "closed"]
    /\ inbox = [c \in Clients |-> <<>>]
    /\ inflight = {}
    /\ agentInbox = <<>>
    /\ resp = NoResponse
    /\ now = FilterLimit + 1
    /\ nreq = 0
    /\ budget = MaxFilterRequests
    /\ viewer = useWebSocket
    /\ sends = NoCalls
    /\ wseq = 0
    /\ orphans = {}
NextFilter ==
    \/ \E e \in FilterEvents, t \in ClockReadings : PostEvents(e, t)
    \/ GetFilterOptions
SpecFilter == InitFilter /\ [][NextFilter]_vars

\* ------------------------------------------------------------ event inserts
\* A status the caller supplies with the event.
SuppliedStatus == [status |-> "responded", respondedAt |-> Some(1), response |-> None]

\* Bodies of POST /events over the optional fields insertEvent looks at:
\* timestamp absent, 0 or 5; with and without a HITL request; with and
\* without a status.
InsertEvents ==
    {HookEvent(App, Some("s1"), Some("PreToolUse"), Some("{tool_name:Bash}"), ts, hitl, hst) :
        ts \in {None, Some(0), Some(5)}, hitl \in {None, Some(HitlRequest)},
        hst \in {None, Some(SuppliedStatus)}}

\* POST /events alone, no dashboard connection.
InitInsert == Setup(MaxInsertRequests, {})
NextInsert == \E e \in InsertEvents, t \in ClockReadings : PostEvents(e, t)
SpecInsert == InitInsert /\ [][NextInsert]_vars

\* --------------------------------------------------------------- categories
\* Coverage items whose identifiers differ in the length of the prefix and of
\* the category.
SegmentedIds == {"WSTG-INPV-01", "OTG-AUTHN-001", "API-AUTH-01"}
CategoryCoverage ==
    {WSTGCoverage(Some("s1"), App, Some(w), Some(st), 0, Some(1)) :
        w \in SegmentedIds, st \in {"executed", "skipped"}}

\* Coverage writes and the coverage report.
InitCategories == Setup(MaxCategoryRequests, {})
NextCategories ==
    \/ \E c \in CategoryCoverage, t \in ClockReadings : PostWstg(c, t)
    \/ \E q \in ReadQueries : GetWstg(q)
SpecCategories == InitCategories /\ [][NextCategories]_vars

\* ------------------------------------------------------------ session stats
\* Sessions reported with each status of SessionSummary.
StatsSessions ==
    {SessionBody(Some(sid), None, None, Some(st), Some(1), None, None) :
        sid \in SessionIds, st \in {"running", "completed", "failed", "timeout"}}

\* Session upserts and the dashboard.
InitSessionStats == Setup(MaxStatsRequests, {})
NextSessionStats ==
    \/ \E s \in StatsSessions, t \in ClockReadings : PostSessions(s, t)
    \/ \E q \in ReadQueries : GetDashboard(q)
SpecSessionStats == InitSessionStats /\ [][NextSessionStats]_vars

\* ------------------------------------------------------- client behaviours
\* One useWebSocket instance from setup to unmount, against a server that
\* accepts, refuses and drops its connections.
InitClient == Setup(0, {})
NextClient ==
    \/ \E throws \in BOOLEAN : Mounted(throws)
    \/ Unmounted
    \/ \E i \in 1..Len(viewer.sockets) : SocketOpens(i)
    \/ \E i \in 1..Len(viewer.sockets), failed \in BOOLEAN : SocketCloses(i, failed)
    \/ \E t \in viewer.timers, throws \in BOOLEAN : TimerFires(t, throws)
    \/ \E i \in 1..Len(viewer.sockets), m \in ServerMessages : SocketMessage(i, m)
SpecClient == InitClient /\ [][NextClient]_vars

\* The same with the event loop running every timer callback that is due.
SpecClientLive ==
    SpecClient /\ WF_vars(\E t \in viewer.timers, throws \in BOOLEAN : TimerFires(t, throws))

\* -------------------------------------------------------- agent behaviours
\* Calls of sendResponseToAgent against agents that accept, refuse, fail and
\* never answer.
InitAgent == Setup(0, {})
NextAgent ==
    \/ \E throws \in BOOLEAN : sendResponseToAgent(throws)
    \/ \E k \in 1..Len(sends), throws \in BOOLEAN : AgentOpens(k, throws)
    \/ \E k \in 1..Len(sends) : AgentErrors(k)
    \/ \E k \in 1..Len(sends) : AgentCloses(k)
    \/ \E k \in 1..Len(sends) : TransmitTimer(k)
    \/ \E k \in 1..Len(sends) : TimeoutTimer(k)
SpecAgent == InitAgent /\ [][NextAgent]_vars

\* The same with the event loop running every timer callback that is due.
SpecAgentLive ==
    SpecAgent /\ \A k \in 1..MaxCalls :
                    WF_vars(k <= Len(sends) /\ (TransmitTimer(k) \/ TimeoutTimer(k)))

\* ---------------------------------------------------------- session upserts
\* A body of POST /api/sessions that also carries the aggregate fields of
\* SessionSummary, as the plugin's createSession and updateSession send them.
SessionWithTotals(session, n) ==
    [f \in DOMAIN session \cup {"total_tokens", "total_cost", "total_findings",
                                "total_tool_calls", "wstg_coverage_pct"} |->
        IF f \in DOMAIN session THEN session[f] ELSE n]

UpsertSessions ==
    {SessionWithTotals(SessionBody(Some("s1"), None, None, st, started, None, agents), n) :
        st \in {None, Some("completed")}, started \in {Some(1), Some(9)},
        agents \in {None, Some(<<"exploit">>)}, n \in {None, Some(7)}}

\* Session upserts between the metric writes and agent additions of a session.
InitUpsert == Setup(MaxUpsertRequests, {})
NextUpsert ==
    \/ \E s \in UpsertSessions, t \in ClockReadings : PostSessions(s, t)
    \/ \E m \in AggregateTokens, t \in ClockReadings : PostTokens(m, t)
    \/ \E m \in AggregateTools, t \in ClockReadings : PostTools(m, t)
    \/ \E t \in ClockReadings : PostSessionAgents("s1", Some("recon"), t)
SpecUpsert == InitUpsert /\ [][NextUpsert]_vars

\* Session bodies with and without agents_used.
AgentSessions ==
    {SessionBody(Some(sid), None, None, None, Some(1), None, agents) :
        sid \in SessionIds, agents \in {None, Some(<<"exploit">>)}}

\* Agent additions to sessions with a row and to session ids without one.
InitAgentsUsed == Setup(MaxAgentRequests, {})
NextAgentsUsed ==
    \/ \E s \in AgentSessions, t \in ClockReadings : PostSessions(s, t)
    \/ \E sid \in SessionIds, agent \in AgentNames, t \in ClockReadings :
          PostSessionAgents(sid, agent, t)
SpecAgentsUsed == InitAgentsUsed /\ [][NextAgentsUsed]_vars

\* ------------------------------------------------------------------ claims
Last(s) == s[Len(s)]
Registered == Range(wsClients)
\* The registered connections a send to which succeeds / throws.
Live == {c \in Registered : socket[c] # "broken"}
Failing == {c \in Registered : socket[c] = "broken"}
UpdateTypes == {"event", "token_update", "tool_update", "finding_update",
                "wstg_update", "session_update"}

\* C1: broadcast order equals write order: in what any connection receives,
\* the message of an earlier store write comes before the message of a later
\* one, also when the requests overlap.
C1_BroadcastOrderIsWriteOrder ==
    \A c \in Clients : \A i, j \in 1..Len(inbox[c]) :
        (i < j /\ inbox[c][i].type # "initial" /\ inbox[c][j].type # "initial")
            => inbox[c][i].w < inbox[c][j].w

IsResponded(st) == st # None /\ Parse(st[1]).status = "responded"

\* C4: an event's humanInTheLoopStatus changes only from pending to a final
\* status, and once the stored status is responded no step changes the stored
\* status, respondedAt or response of that event.
C4_StatusChangesOnce ==
    [][\A i \in 1..Len(events) :
          LET old == events[i].humanInTheLoopStatus
              new == events'[i].humanInTheLoopStatus
          IN /\ IsResponded(old) => new = old
             /\ (new # old /\ events[i].humanInTheLoop # None)
                    => old = Some(Stringify(PendingStatus))]_vars

RECURSIVE TokensOf(_, _)
\* Sum of total_tokens over the rows of `table` stored with session_id sid.
TokensOf(table, sid) ==
    IF table = <<>> THEN 0
    ELSE (IF Head(table).session_id = sid THEN Head(table).total_tokens ELSE 0)
         + TokensOf(Tail(table), sid)

RECURSIVE CostOf(_, _)
\* Sum of estimated_cost over the rows of `table` stored with session_id sid.
CostOf(table, sid) ==
    IF table = <<>> THEN 0
    ELSE (IF Head(table).session_id = sid THEN Head(table).estimated_cost ELSE 0)
         + CostOf(Tail(table), sid)

\* C5: every Session row's total_tokens and total_cost equal the sums of
\* total_tokens and estimated_cost over the TokenMetric rows of its session_id,
\* whatever the order of upsertSession and insertTokenMetric.
C5_TokenTotalsAreSums ==
    \A i \in 1..Len(sessions) :
        /\ sessions[i].total_tokens = TokensOf(token_metrics, sessions[i].session_id)
        /\ sessions[i].total_cost = CostOf(token_metrics, sessions[i].session_id)

\* C6: when every insertFinding referenced a session that already had a row,
\* each Session's total_findings is the number of Finding rows stored with its
\* session_id, also after a finding_id was resubmitted under another session.
C6_FindingCountsMatchRows ==
    (\A o \in orphans : o[1] # "findings")
        => \A i \in 1..Len(sessions) :
              sessions[i].total_findings =
                  Cardinality({k \in 1..Len(findings) :
                                  findings[k].session_id = sessions[i].session_id})

\* C10: no request changes stored state without a typed message reaching the
\* full client set: a step that changes the store either sends one update
\* message to every registered connection whose send succeeds, or suspends the
\* request before its broadcast (the respond handler awaiting the agent).
C10_EveryWriteIsBroadcast ==
    [][store' # store =>
          \/ inflight' # inflight
          \/ \A c \in Live : /\ Len(inbox'[c]) = Len(inbox[c]) + 1
                             /\ Last(inbox'[c]).type \in UpdateTypes]_vars

\* A body lacks a required field when the field is absent or the empty string.
Lacks(body, fields) == \E f \in fields : body[f] \in {None, Some("")}
EventRequired == {"source_app", "session_id", "hook_event_type", "payload"}
TokenRequired == {"session_id", "source_app"}
ToolRequired == {"session_id", "source_app", "tool_name", "status"}
FindingRequired == {"session_id", "source_app", "finding_id", "vulnerability_type"}
CoverageRequired == {"session_id", "source_app", "wstg_id", "status"}
SessionRequired == {"session_id"}

\* The step is the handler of `endpoint` answering a request with clock
\* reading t (a handler counts its request, leaves the clock at the reading it
\* took and tags its response with its endpoint).
Handled(endpoint, t) == nreq' = nreq + 1 /\ now' = t /\ resp'.endpoint = endpoint

\* C2: every POST /events whose body has all required fields is answered 200,
\* appends one row, and every registered connection whose send does not throw
\* receives exactly one {type:"event"} message whose data.id and data.timestamp
\* are the id and timestamp of the response body and of the stored row.
C2_ValidEventStoredAndBroadcast ==
    [][\A e \in ValidEvents \cup InvalidEvents, t \in ClockReadings :
          (Handled("POST /events", t) /\ ~Lacks(e, EventRequired) /\ PostEvents(e, t)) =>
              /\ resp'.status = 200
              /\ resp'.body # None
              /\ Len(events') = Len(events) + 1
              /\ SubSeq(events', 1, Len(events)) = events
              /\ LET row == Last(events')
                     out == resp'.body[1]
                 IN /\ out.id = Some(row.id)
                    /\ out.timestamp = Some(row.timestamp)
                    /\ row.source_app = e.source_app
                    /\ row.session_id = e.session_id
                    /\ row.hook_event_type = e.hook_event_type
                    /\ Parse(row.payload) = e.payload
                    /\ \A c \in Live :
                          /\ Len(inbox'[c]) = Len(inbox[c]) + 1
                          /\ SubSeq(inbox'[c], 1, Len(inbox[c])) = inbox[c]
                          /\ Last(inbox'[c]).type = "event"
                          /\ Last(inbox'[c]).data.id = out.id
                          /\ Last(inbox'[c]).data.timestamp = out.timestamp]_vars

\* C2 case: a POST /events was answered 200 and an open connection holds, as
\* its latest message, the event of the response body, which is stored.
C2_Witness ==
    /\ resp.endpoint = "POST /events"
    /\ resp.status = 200
    /\ \E c \in Live :
          /\ Len(inbox[c]) >= 2
          /\ Last(inbox[c]).type = "event"
          /\ Last(inbox[c]).data = resp.body[1]
          /\ \E i \in 1..Len(events) : Some(events[i].id) = resp.body[1].id

\* The outcome of a rejected request: 400 with an error string, every table
\* and every connection as before.
Rejected ==
    /\ resp'.status = 400
    /\ resp'.error # None
    /\ UNCHANGED <<store, inbox, wsClients>>

\* C3: on each write endpoint a body that lacks a required field is answered
\* 400 with an error string; no row is inserted or changed in any table and no
\* message is sent to any connection.
C3_ValidationFailureHasNoEffect ==
    [][\A t \in ClockReadings :
          /\ Handled("POST /events", t) =>
                \A b \in ValidEvents \cup InvalidEvents :
                    (Lacks(b, EventRequired) /\ PostEvents(b, t)) => Rejected
          /\ Handled("POST /api/metrics/tokens", t) =>
                \A b \in ValidTokens \cup InvalidTokens :
                    (Lacks(b, TokenRequired) /\ PostTokens(b, t)) => Rejected
          /\ Handled("POST /api/metrics/tools", t) =>
                \A b \in ValidTools \cup InvalidTools :
                    (Lacks(b, ToolRequired) /\ PostTools(b, t)) => Rejected
          /\ Handled("POST /api/metrics/findings", t) =>
                \A b \in ValidFindings \cup InvalidFindings :
                    (Lacks(b, FindingRequired) /\ PostFindings(b, t)) => Rejected
          /\ Handled("POST /api/metrics/wstg", t) =>
                \A b \in ValidCoverage \cup InvalidCoverage :
                    (Lacks(b, CoverageRequired) /\ PostWstg(b, t)) => Rejected
          /\ Handled("POST /api/sessions", t) =>
                \A b \in ValidSessions \cup InvalidSessions :
                    (Lacks(b, SessionRequired) /\ PostSessions(b, t)) => Rejected]_vars

\* C3 case: a tools metric without a required field was just rejected while a
\* connection is registered and an earlier write is stored.
C3_Witness ==
    /\ resp.endpoint = "POST /api/metrics/tools"
    /\ resp.status = 400
    /\ wsClients # <<>>
    /\ wseq > 0

\* insertFinding's default for an absent severity.
SeverityOf(f) == IF f.severity \in {None, Some("")} THEN Some("medium") ELSE f.severity

\* C7: after every step the findings table holds at most one row per
\* finding_id; after a POST of a finding the row of its finding_id carries the
\* submitted fields (the submitted severity, or the default when none was
\* given), and resubmitting a stored finding_id does not add a row.
C7_FindingUpsertLaw ==
    [][/\ \A i, j \in 1..Len(findings') :
             findings'[i].finding_id = findings'[j].finding_id => i = j
       /\ \A f \in ValidFindings \cup InvalidFindings, t \in ClockReadings :
             (Handled("POST /api/metrics/findings", t)
                 /\ ~Lacks(f, FindingRequired) /\ PostFindings(f, t)) =>
                 /\ \E i \in 1..Len(findings') :
                       /\ findings'[i].finding_id = f.finding_id
                       /\ findings'[i].severity = SeverityOf(f)
                       /\ findings'[i].session_id = f.session_id
                       /\ findings'[i].source_app = f.source_app
                       /\ findings'[i].vulnerability_type = f.vulnerability_type
                 /\ (\E i \in 1..Len(findings) : findings[i].finding_id = f.finding_id)
                       => Len(findings') = Len(findings)
                 /\ Len(findings') <= Len(findings) + 1]_vars

\* C7 case: a finding_id was submitted, then resubmitted with another
\* severity; one row is stored and it is the later one.
C7_Witness ==
    /\ rowids.findings = 2
    /\ Len(findings) = 1
    /\ findings[1].id = 2
    /\ findings[1].severity = Some("high")
    /\ resp.endpoint = "POST /api/metrics/findings"

\* A step that runs a broadcast loop: a write followed by its loop in the same
\* turn, or the resumption of a suspended respond request.
BroadcastStep ==
    \/ wseq' = wseq + 1 /\ inflight' = inflight /\ wsClients # <<>>
    \/ wseq' = wseq /\ inflight' # inflight

\* C8: when a send throws during a broadcast, exactly the connections whose
\* send threw leave the registry, every other registered connection is sent
\* the same message, the write is stored and the request is answered 200.
C8_SendFailureDropsOnlyThatClient ==
    [][(BroadcastStep /\ Failing # {}) =>
          /\ Range(wsClients') = Registered \ Failing
          /\ \A c \in Failing : inbox'[c] = inbox[c]
          /\ resp'.status = 200
          /\ resp'.body # None
          /\ \A c \in Live : /\ Len(inbox'[c]) = Len(inbox[c]) + 1
                             /\ SubSeq(inbox'[c], 1, Len(inbox[c])) = inbox[c]
                             /\ Last(inbox'[c]).type = "event"
                             /\ Last(inbox'[c]).data = resp'.body[1]
          /\ \E i \in 1..Len(events') : Some(events'[i].id) = resp'.body[1].id
          /\ wseq' = wseq + 1 =>
                \E i \in 1..Len(events') : rowToEvent(events'[i]) = resp'.body[1]
          /\ wseq' = wseq => events' = events]_vars

\* C8 case: a broadcast met a dead connection, which is now unregistered with
\* its close handler still to run, while another connection holds the message
\* of that broadcast.
C8_Witness ==
    \E c, d \in Clients :
        /\ socket[c] = "broken"
        /\ c \notin Registered
        /\ d \in Registered
        /\ resp.status = 200
        /\ Last(inbox[d]).type = "event"
        /\ Last(inbox[d]).data = resp.body[1]
        /\ Len(inbox[d]) > Len(inbox[c])

\* C9: the open handler gives the connection, as its first message,
\* {type:"initial"} carrying getRecentEvents(300) of the table at that moment;
\* no connection holds an event or update message that is not preceded by its
\* initial message; an event inserted while a connection is open is sent to it
\* in the same step.
C9_InitialFirstThenLive ==
    [][/\ \A c \in Clients :
             (socket[c] = "idle" /\ socket'[c] = "open") =>
                 /\ inbox[c] = <<>>
                 /\ inbox'[c] = <<Msg("initial", getRecentEvents(RecentLimit), 0)>>
                 /\ \A i \in 1..Len(events) :
                       \E k \in 1..Len(inbox'[c][1].data) :
                           inbox'[c][1].data[k].id = Some(events[i].id)
       /\ \A c \in Clients : \A i \in 1..Len(inbox'[c]) :
             inbox'[c][i].type \in UpdateTypes =>
                 \E j \in 1..(i - 1) : inbox'[c][j].type = "initial"
       /\ \A c \in Clients :
             (socket[c] = "open" /\ Len(events') > Len(events)) =>
                 /\ Len(inbox'[c]) = Len(inbox[c]) + 1
                 /\ Last(inbox'[c]).type = "event"
                 /\ Last(inbox'[c]).data.id = Some(Last(events').id)]_vars

\* C9 case: a connection opened on a non-empty table, got the backlog first,
\* and then the event that was inserted after the open.
C9_Witness ==
    \E c \in Clients :
        /\ socket[c] = "open"
        /\ Len(inbox[c]) = 2
        /\ inbox[c][1].type = "initial"
        /\ Len(inbox[c][1].data) = 1
        /\ inbox[c][2].type = "event"
        /\ inbox[c][2].data.id = Some(2)
        /\ inbox[c][1].data[1].id = Some(1)

\* C13: when the delivery of a HITL response to the requester fails, the
\* request is still answered 200 with the updated event, the stored status of
\* the event is responded, and the updated event is sent to every registered
\* connection whose send succeeds.
C13_DeliveryFailureNotSurfaced ==
    [][\A r \in inflight, sent \in BOOLEAN :
          RespondFailed(r, sent) =>
              /\ resp'.status = 200
              /\ resp'.error = None
              /\ resp'.body = Some(r.event)
              /\ IsResponded(Some(Stringify(r.event.humanInTheLoopStatus[1])))
              /\ \E i \in 1..Len(events') :
                    /\ Some(events'[i].id) = r.event.id
                    /\ IsResponded(events'[i].humanInTheLoopStatus)
              /\ \A c \in Live :
                    inbox'[c] = Append(inbox[c], Msg("event", r.event, r.w))]_vars

\* C13 case: a respond request for an event with a response URL was answered
\* although nothing ever reached the requester, and a connection holds the
\* updated event.
C13_Witness ==
    /\ resp.endpoint = "POST /events/:id/respond"
    /\ resp.status = 200
    /\ inflight = {}
    /\ agentInbox = <<>>
    /\ hasResponseUrl(resp.body[1])
    /\ \E c \in Registered : Last(inbox[c]).data = resp.body[1]

\* C14: a respond request whose id matches no stored event is answered 404
\* with an error; no stored event changes, no delivery to a requester is
\* started, and no connection is sent anything.
C14_UnknownEventIsNotFound ==
    [][\A id \in 1..(Len(events) + 1), a \in Answers, t \in ClockReadings :
          ((\A i \in 1..Len(events) : events[i].id # id) /\ PostRespond(id, a, t)) =>
              /\ resp'.status = 404
              /\ resp'.error # None
              /\ resp'.body = None
              /\ events' = events
              /\ inflight' = inflight
              /\ agentInbox' = agentInbox
              /\ inbox' = inbox
              /\ wsClients' = wsClients]_vars

\* C14 case: with an event stored and a connection registered, a respond
\* request for an id that is not stored was answered 404.
C14_Witness ==
    /\ resp.endpoint = "POST /events/:id/respond"
    /\ resp.status = 404
    /\ events # <<>>
    /\ wsClients # <<>>

TerminalStatuses == {Some("completed"), Some("failed"), Some("timeout")}

\* C12: a Session is terminal once its status has left running: no step
\* changes the status of a Session row whose status is completed, failed or
\* timeout.
C12_TerminalSessionKeepsStatus ==
    [][\A i \in 1..Len(sessions) :
          sessions[i].status \in TerminalStatuses
              => sessions'[i].status = sessions[i].status]_vars

Min(a, b) == IF a <= b THEN a ELSE b

\* `out` is what the claim says getRecentEvents(n) returns for `table`:
\* min(n, number of rows) distinct stored events, no stored event left out has
\* a greater timestamp than one returned, oldest first.
IsRecent(out, n, table) ==
    /\ Len(out) = Min(n, Len(table))
    /\ \A k \in 1..Len(out) : \E i \in 1..Len(table) : out[k] = rowToEvent(table[i])
    /\ \A k, l \in 1..Len(out) : k < l =>
          /\ out[k].id # out[l].id
          /\ out[k].timestamp[1] <= out[l].timestamp[1]
    /\ \A i \in 1..Len(table) :
          (\A k \in 1..Len(out) : out[k].id # Some(table[i].id)) =>
              \A k \in 1..Len(out) : table[i].timestamp <= out[k].timestamp[1]

\* C15: GET /events/recent with limit N answers with min(N, stored) events,
\* the ones with the greatest timestamps, oldest first; after a POST /events
\* the stored event is in getRecentEvents(k) for every k that is at least the
\* number of stored events.
C15_RecentEventsLaw ==
    [][/\ \A n \in Limits :
             GetRecent(n) => /\ resp'.status = 200
                             /\ IsRecent(resp'.body[1], n, events)
       /\ Len(events') = Len(events) + 1 =>
             \A k \in {n \in Limits : n >= Len(events')} :
                 \E j \in 1..Len(getRecentEventsOf(events', k)) :
                     getRecentEventsOf(events', k)[j] = resp'.body[1]]_vars

\* C15 case: three events are stored, not in timestamp order, and a reader
\* that asked for two got the two newest by timestamp, which are not the two
\* inserted last.
C15_Witness ==
    /\ resp.endpoint = "GET /events/recent"
    /\ Len(events) = 3
    /\ events[2].timestamp > events[3].timestamp
    /\ events[1].timestamp = events[3].timestamp
    /\ Len(resp.body[1]) = 2
    /\ resp.body[1][2].id = Some(2)

\* C16: after every step the coverage table holds at most one row per
\* (session_id, wstg_id); after a POST of a coverage record the row of its pair
\* holds the submitted status, a resubmitted pair adds no row, and the rows of
\* other sessions, the same wstg_id included, stay as they are.
C16_CoverageUpsertLaw ==
    [][/\ \A i, j \in 1..Len(wstg_coverage') :
             (/\ wstg_coverage'[i].session_id = wstg_coverage'[j].session_id
              /\ wstg_coverage'[i].wstg_id = wstg_coverage'[j].wstg_id) => i = j
       /\ \A c \in ValidCoverage \cup InvalidCoverage, t \in ClockReadings :
             (Handled("POST /api/metrics/wstg", t)
                 /\ ~Lacks(c, CoverageRequired) /\ PostWstg(c, t)) =>
                 /\ \E i \in 1..Len(wstg_coverage') :
                       /\ wstg_coverage'[i].session_id = c.session_id
                       /\ wstg_coverage'[i].wstg_id = c.wstg_id
                       /\ wstg_coverage'[i].status = c.status
                 /\ \A i \in 1..Len(wstg_coverage) :
                       wstg_coverage[i].session_id # c.session_id =>
                           \E k \in 1..Len(wstg_coverage') :
                               wstg_coverage'[k] = wstg_coverage[i]
                 /\ Len(wstg_coverage') =
                       IF \E i \in 1..Len(wstg_coverage) :
                             /\ wstg_coverage[i].session_id = c.session_id
                             /\ wstg_coverage[i].wstg_id = c.wstg_id
                       THEN Len(wstg_coverage) ELSE Len(wstg_coverage) + 1]_vars

\* C16 case: the same wstg_id is stored under two sessions with different
\* statuses, and one of the two rows replaced an earlier submission.
C16_Witness ==
    /\ Len(wstg_coverage) = 2
    /\ rowids.wstg_coverage = 3
    /\ wstg_coverage[1].wstg_id = wstg_coverage[2].wstg_id
    /\ wstg_coverage[1].session_id # wstg_coverage[2].session_id
    /\ wstg_coverage[1].status # wstg_coverage[2].status
    /\ wstg_coverage[2].id = 3

\* The number of rows of `rows` with this status.
RowsWith(rows, status) ==
    Cardinality({i \in 1..Len(rows) : rows[i].status = Some(status)})

\* executed / (total - not_applicable) * 100 over `rows`, 0 when the
\* denominator is 0.
CoveragePercentage(rows) ==
    LET applicable == Len(rows) - RowsWith(rows, "not_applicable")
    IN IF applicable = 0 THEN Zero
       ELSE fmul(fdiv(RowsWith(rows, "executed"), applicable), 100)

\* C17: the coverage_percentage of a coverage report is executed /
\* (total - not_applicable) * 100 over the rows read, 0 when that denominator
\* is 0; it is 50 for one executed, one not_applicable and one skipped row; and
\* the wstg_coverage_pct that insertWSTGCoverage writes into the owning Session
\* is the coverage_percentage of that session's report.
C17_CoveragePercentage ==
    [][/\ Handled("GET /api/metrics/wstg", now) =>
            \E q \in ReportQueries :
                LET rows == rowsOf(wstg_coverage, sessionIdParam(q))
                    pct == resp'.body[1].coverage_percentage
                IN /\ resp'.body[1] = getWSTGCoverageReport(wstg_coverage, sessionIdParam(q))
                   /\ pct = CoveragePercentage(rows)
                   /\ (/\ Len(rows) = 3
                       /\ RowsWith(rows, "executed") = 1
                       /\ RowsWith(rows, "not_applicable") = 1
                       /\ RowsWith(rows, "skipped") = 1) => pct = fdiv(50, 1)
       /\ \A t \in ClockReadings :
            Handled("POST /api/metrics/wstg", t) /\ resp'.status = 200 =>
                LET sid == resp'.body[1].session_id
                    row == getSessionOf(sessions', sid)
                IN row # None =>
                     row[1].wstg_coverage_pct
                         = getWSTGCoverageReport(wstg_coverage', sid).coverage_percentage]_vars

\* The rows of tool_metrics a tool report with this query reads for `tool`.
CallsOf(tool, q) ==
    SelectSeq(tool_metrics,
              LAMBDA r : r.tool_name = tool
                         /\ (TruthyStr(q) => r.session_id = q))

RECURSIVE SumOfDurations(_)
SumOfDurations(calls) ==
    IF calls = <<>> THEN 0 ELSE Head(calls).duration_ms[1] + SumOfDurations(Tail(calls))

\* The mean duration_ms of the calls that have one, 0 when none has.
MeanDuration(calls) ==
    LET timed == SelectSeq(calls, LAMBDA r : r.duration_ms # None)
    IN IF timed = <<>> THEN Zero ELSE fdiv(SumOfDurations(timed), Len(timed))

\* C18: in a tool report, a tool's avg_duration_ms is the mean duration_ms over
\* only those of its calls whose duration_ms is not null.
C18_AverageOverTimedCalls ==
    [][Handled("GET /api/metrics/tools", now) =>
          \E q \in ToolQueries :
              /\ resp'.body[1] = getToolEffectivenessReport(tool_metrics, sessionIdParam(q))
              /\ \A i \in 1..Len(resp'.body[1]) :
                    LET row == resp'.body[1][i]
                    IN row.avg_duration_ms = MeanDuration(CallsOf(row.tool_name, q))]_vars

RECURSIVE ValueOf(_)
ValueOf(bits) ==
    IF bits = <<>> THEN 0 ELSE 2 * ValueOf(SubSeq(bits, 1, Len(bits) - 1)) + bits[Len(bits)]

\* The double x (at most 100) in hundredths, rounded to the nearest integer.
Hundredths(x) ==
    IF x = Zero THEN 0
    ELSE LET p == Product(x.bits, 100, 0, <<>>)
             whole == Len(p) - (Precision - x.exp)
         IN IF whole < 0 THEN 0
            ELSE ValueOf(SubSeq(p, 1, whole)) + p[whole + 1]

CountCalls(calls, status) ==
    Cardinality({i \in 1..Len(calls) : calls[i].status = Some(status)})

\* C19: a tool report has one row for each tool_name with calls, whose
\* total_calls is the number of ToolMetric rows with that tool_name, whose
\* success_count, failure_count and timeout_count are the numbers of those rows
\* with that status, and whose success_rate is success_count / total_calls *
\* 100 (66.67 to two decimals for 2 successes in 3 calls).
C19_ToolCountsAndRate ==
    [][Handled("GET /api/metrics/tools", now) =>
          \E q \in ToolQueries :
              /\ resp'.body[1] = getToolEffectivenessReport(tool_metrics, sessionIdParam(q))
              /\ \A k \in 1..Len(ToolNames) :
                    LET calls == CallsOf(Some(ToolNames[k]), q)
                        rows == {i \in 1..Len(resp'.body[1]) :
                                    resp'.body[1][i].tool_name = Some(ToolNames[k])}
                    IN /\ Cardinality(rows) = IF calls = <<>> THEN 0 ELSE 1
                       /\ \A i \in rows :
                            LET row == resp'.body[1][i]
                            IN /\ row.total_calls = Len(calls)
                               /\ row.success_count = CountCalls(calls, "success")
                               /\ row.failure_count = CountCalls(calls, "failure")
                               /\ row.timeout_count = CountCalls(calls, "timeout")
                               /\ row.success_rate
                                    = fmul(fdiv(row.success_count, row.total_calls), 100)
                               /\ Hundredths(row.success_rate)
                                    = (20000 * row.success_count + row.total_calls)
                                          \div (2 * row.total_calls)]_vars

\* A report was returned with a tool called 3 times, 2 of them successful and
\* one timed out, at a success rate of 66.67.
C19_Witness ==
    /\ resp.endpoint = "GET /api/metrics/tools"
    /\ \E i \in 1..Len(resp.body[1]) :
          /\ resp.body[1][i].total_calls = 3
          /\ resp.body[1][i].success_count = 2
          /\ resp.body[1][i].timeout_count = 1
          /\ Hundredths(resp.body[1][i].success_rate) = 6667

\* C20: the aggregates of a Session are monotonic: no step of upsertSession,
\* insertTokenMetric, insertToolMetric or insertFinding, fed non-negative
\* tokens and costs, decreases the total_tokens, total_cost, total_tool_calls
\* or total_findings of a Session row.
C20_AggregatesNeverDecrease ==
    [][\A i \in 1..Len(sessions) :
          /\ sessions'[i].total_tokens >= sessions[i].total_tokens
          /\ sessions'[i].total_cost >= sessions[i].total_cost
          /\ sessions'[i].total_tool_calls >= sessions[i].total_tool_calls
          /\ sessions'[i].total_findings >= sessions[i].total_findings]_vars

\* The rows of the sessions table that own the metrics of session `sid`.
Owning(sid) == {i \in 1..Len(sessions) : sessions[i].session_id = sid}

\* C11: a metric insert and the update of the owning Session are one step for
\* every other request: a step that adds a row to token_metrics, tool_metrics,
\* findings or wstg_coverage leaves the owning Session with the aggregate
\* already updated, an aggregate changes in no other step, and a reader (GET
\* /api/sessions/:id) returns the Session as the last write left it.
C11_InsertAndAggregateAreOneStep ==
    [][/\ token_metrics' # token_metrics =>
            \A i \in Owning(Last(token_metrics').session_id) :
                /\ sessions'[i].total_tokens
                     = sessions[i].total_tokens + Last(token_metrics').total_tokens
                /\ sessions'[i].total_cost
                     = sessions[i].total_cost + Last(token_metrics').estimated_cost
       /\ tool_metrics' # tool_metrics =>
            \A i \in Owning(Last(tool_metrics').session_id) :
                sessions'[i].total_tool_calls
                    = CountOf(tool_metrics', sessions[i].session_id)
       /\ findings' # findings =>
            \A i \in Owning(Last(findings').session_id) :
                sessions'[i].total_findings = CountOf(findings', sessions[i].session_id)
       /\ wstg_coverage' # wstg_coverage =>
            \A i \in Owning(Last(wstg_coverage').session_id) :
                LET sid == sessions[i].session_id
                    applicable == CountOf(wstg_coverage', sid)
                                     - CountStatus(wstg_coverage', sid, "not_applicable")
                IN sessions'[i].wstg_coverage_pct
                     = IF applicable > 0
                       THEN fdiv(100 * CountStatus(wstg_coverage', sid, "executed"),
                                 applicable)
                       ELSE Zero
       /\ \A i \in 1..Len(sessions) :
            /\ (\/ sessions'[i].total_tokens # sessions[i].total_tokens
                \/ sessions'[i].total_cost # sessions[i].total_cost)
                  => token_metrics' # token_metrics
            /\ sessions'[i].total_tool_calls # sessions[i].total_tool_calls
                  => tool_metrics' # tool_metrics
            /\ sessions'[i].total_findings # sessions[i].total_findings
                  => findings' # findings
            /\ sessions'[i].wstg_coverage_pct # sessions[i].wstg_coverage_pct
                  => wstg_coverage' # wstg_coverage
       /\ Handled("GET /api/sessions/:id", now) =>
            /\ UNCHANGED store
            /\ resp'.status = 200 => \E i \in 1..Len(sessions) :
                                        resp'.body[1] = rowToSession(sessions[i])]_vars

\* A reader got a Session whose totals carry a token metric and a tool call
\* written before it.
C11_Witness ==
    /\ resp.endpoint = "GET /api/sessions/:id"
    /\ resp.status = 200
    /\ resp.body[1].total_tool_calls = 1
    /\ resp.body[1].total_tokens = 2
    /\ Len(tool_metrics) = 1
    /\ Len(token_metrics) = 1

\* C21: count aggregates are recomputed: right after every insertToolMetric
\* for a session_id whose Session row exists, that Session's total_tool_calls
\* is the number of ToolMetric rows stored for the session_id, those inserted
\* before the Session row was created included.
C21_ToolCountIsRecounted ==
    [][\A t \in ClockReadings :
          Handled("POST /api/metrics/tools", t) /\ resp'.status = 200 =>
              \A i \in 1..Len(sessions) :
                  sessions[i].session_id = resp'.body[1].session_id =>
                      sessions'[i].total_tool_calls
                          = Cardinality({k \in 1..Len(tool_metrics') :
                                tool_metrics'[k].session_id = sessions[i].session_id})]_vars

\* A tool call was recorded for a session whose row was created after an
\* earlier call of the same session, and the total counts both.
C21_Witness ==
    /\ resp.endpoint = "POST /api/metrics/tools"
    /\ resp.status = 200
    /\ <<"tool_metrics", resp.body[1].session_id>> \in orphans
    /\ \E i \in 1..Len(sessions) :
          /\ sessions[i].session_id = resp.body[1].session_id
          /\ sessions[i].total_tool_calls = 2
          /\ Len(tool_metrics) = 2

\* C22: no partial writes on storage failure: a write request in which a
\* storage statement fails returns an error response, broadcasts nothing and
\* leaves the store exactly as it was, so that no metric row is persisted
\* without the update of its Session's aggregate.
C22_StorageFailureLeavesNoTrace ==
    [][\A t \in ClockReadings :
          Handled("POST /api/metrics/tokens", t) /\ resp'.error = Some("Invalid request") =>
              /\ resp'.status \in 400..599
              /\ UNCHANGED <<wsClients, inbox>>
              /\ UNCHANGED store]_vars

\* C23: getMetricsDashboard returns a single point-in-time view: the
\* sessions, tokens, findings, tools and wstg sections of a dashboard response
\* all describe the one store state the request found, which it leaves as it
\* is.
C23_DashboardIsOneView ==
    [][Handled("GET /api/metrics/dashboard", now) =>
          /\ UNCHANGED store
          /\ \E q \in ReadQueries :
                LET view == resp'.body[1]
                    sid == sessionIdParam(q)
                IN /\ view.sessions.total = Len(sessions)
                   /\ numberOf(view.sessions.running)
                        = Cardinality({i \in 1..Len(sessions) :
                                          sessions[i].status = Some("running")})
                   /\ view.tokens = getTokenSummary(token_metrics, sid)
                   /\ view.findings = getFindingSummary(findings, sid)
                   /\ view.tools = getToolEffectivenessReport(tool_metrics, sid)
                   /\ view.wstg = getWSTGCoverageReport(wstg_coverage, sid)]_vars

\* A dashboard was returned for a store holding a session, a token metric and
\* a tool call, and shows all three.
C23_Witness ==
    /\ resp.endpoint = "GET /api/metrics/dashboard"
    /\ resp.body[1].sessions.total = 1
    /\ resp.body[1].tokens.total_tokens = 2
    /\ Len(resp.body[1].tools) = 1
    /\ resp.body[1].tools[1].total_calls = 1

ReadEndpoints ==
    {"GET /api/metrics/tokens", "GET /api/metrics/tools", "GET /api/metrics/findings",
     "GET /api/metrics/wstg", "GET /api/metrics/dashboard"}

\* C29: aggregation reads are pure: a request for the token summary, the tool
\* report, the finding summary, the coverage report or the dashboard changes
\* no stored row, and a token summary requested right after another one with
\* the same session filter, no write in between, is identical to it.
C29_ReadsArePure ==
    [][/\ \A e \in ReadEndpoints : Handled(e, now) => UNCHANGED store
       /\ (/\ resp.endpoint = "GET /api/metrics/tokens"
           /\ Handled("GET /api/metrics/tokens", now)
           /\ resp'.body[1].session_id = resp.body[1].session_id)
              => resp'.body = resp.body]_vars

\* A token summary for session s1 was returned as the third request, over a
\* store in which one token metric was written.
C29_Witness ==
    /\ resp.endpoint = "GET /api/metrics/tokens"
    /\ resp.body[1].session_id = Some("s1")
    /\ resp.body[1].total_tokens = 2
    /\ nreq = 3
    /\ Len(token_metrics) = 1

RECURSIVE SumOfCounts(_)
SumOfCounts(counts) ==
    IF DOMAIN counts = {} THEN 0
    ELSE LET key == CHOOSE k \in DOMAIN counts : TRUE
         IN counts[key] + SumOfCounts([k \in DOMAIN counts \ {key} |-> counts[k]])

\* C25: a Finding ingested through insertFinding without a severity is
\* counted by getFindingSummary under "unknown" in by_severity, one ingested
\* without a confidence under "unknown" in by_confidence, and the counts of
\* by_severity always sum to total_findings.
C25_MissingSeverityIsUnknown ==
    [][/\ \A t \in ClockReadings :
            Handled("POST /api/metrics/findings", t) /\ resp'.status = 200 =>
                LET summary == getFindingSummary(findings', None)
                IN /\ resp'.body[1].severity = None
                        => "unknown" \in DOMAIN summary.by_severity
                   /\ resp'.body[1].confidence = None
                        => "unknown" \in DOMAIN summary.by_confidence
       /\ Handled("GET /api/metrics/findings", now) =>
            SumOfCounts(resp'.body[1].by_severity) = resp'.body[1].total_findings]_vars

SourceAppRank ==
    [text \in Range(SourceAppOrder) |->
        CHOOSE n \in 1..Len(SourceAppOrder) : SourceAppOrder[n] = text]
HookEventTypeRank ==
    [text \in Range(HookEventTypeOrder) |->
        CHOOSE n \in 1..Len(HookEventTypeOrder) : HookEventTypeOrder[n] = text]
SessionIdRank ==
    [text \in Range(SessionIdOrder) |->
        CHOOSE n \in 1..Len(SessionIdOrder) : SessionIdOrder[n] = text]

\* `list` has no duplicates and is sorted, upwards or downwards.
SortedDistinct(list, rank) ==
    \/ \A i \in 1..(Len(list) - 1) : rank[list[i]] < rank[list[i + 1]]
    \/ \A i \in 1..(Len(list) - 1) : rank[list[i]] > rank[list[i + 1]]

\* The newest stored event of a session.
LastEventOf(text) ==
    CHOOSE i \in 1..Len(events) :
        /\ events[i].session_id = Some(text)
        /\ \A j \in 1..Len(events) :
              events[j].session_id = Some(text) =>
                  \/ events[j].timestamp < events[i].timestamp
                  \/ events[j].timestamp = events[i].timestamp /\ j <= i

MoreRecent(a, b) ==
    LET i == LastEventOf(a)
        j == LastEventOf(b)
    IN \/ events[i].timestamp > events[j].timestamp
       \/ events[i].timestamp = events[j].timestamp /\ i > j

\* C24: getFilterOptions returns each list without duplicates and sorted,
\* session_ids has at most 300 entries, and when the events table holds more
\* than 300 distinct session_ids the ones returned are the 300 most recent
\* sessions: every session returned has a newer event than every session left
\* out.
C24_FilterOptionsAreRecentSessions ==
    [][Handled("GET /events/filter-options", now) =>
          LET options == resp'.body[1]
              stored == {events[i].session_id[1] : i \in 1..Len(events)}
              returned == Range(options.session_ids)
          IN /\ SortedDistinct(options.source_apps, SourceAppRank)
             /\ SortedDistinct(options.hook_event_types, HookEventTypeRank)
             /\ SortedDistinct(options.session_ids, SessionIdRank)
             /\ Len(options.session_ids) <= FilterLimit
             /\ returned \subseteq stored
             /\ Cardinality(stored) > FilterLimit =>
                   /\ Len(options.session_ids) = FilterLimit
                   /\ \A a \in returned, b \in stored \ returned : MoreRecent(a, b)]_vars

\* C26: insertEvent gives each stored event an id greater than every id
\* assigned before it, stores the timestamp of the body when the body has one
\* and the clock reading otherwise, stores the status pending exactly when the
\* body has a humanInTheLoop request and no status, and stores no status for a
\* body with neither.
C26_InsertEventAssignsIdTimestampStatus ==
    [][\A e \in InsertEvents, t \in ClockReadings :
          (Handled("POST /events", t) /\ PostEvents(e, t)) =>
              LET row == Last(events')
              IN /\ Len(events') = Len(events) + 1
                 /\ \A i \in 1..Len(events) : row.id > events[i].id
                 /\ row.timestamp = IF e.timestamp # None THEN e.timestamp[1] ELSE t
                 /\ (row.humanInTheLoopStatus = Some(Stringify(PendingStatus)))
                        <=> (e.humanInTheLoop # None /\ e.humanInTheLoopStatus = None)
                 /\ (e.humanInTheLoop = None /\ e.humanInTheLoopStatus = None)
                        => row.humanInTheLoopStatus = None]_vars

\* C27: the event log is append-only and a stored event is immutable apart
\* from its humanInTheLoopStatus: no step of the server removes a row of the
\* events table, and every row keeps its id, source_app, session_id,
\* hook_event_type, payload, timestamp and humanInTheLoop as inserted.
C27_EventsAreAppendOnly ==
    [][/\ Len(events') >= Len(events)
       /\ \A i \in 1..Len(events) :
             [events'[i] EXCEPT !.humanInTheLoopStatus = events[i].humanInTheLoopStatus]
                 = events[i]]_vars

\* C27 case: two events are stored, the first one was answered through the
\* respond endpoint after it was inserted with the status pending, and it
\* still has the timestamp and the request it was inserted with.
C27_Witness ==
    /\ Len(events) >= 2
    /\ events[1].humanInTheLoop = Some(Stringify(HitlRequest))
    /\ events[1].humanInTheLoopStatus # None
    /\ Parse(events[1].humanInTheLoopStatus[1]).status = "responded"
    /\ Parse(events[1].humanInTheLoopStatus[1]).respondedAt # Some(events[1].timestamp)

MetricEndpoints ==
    {"POST /api/metrics/tokens", "POST /api/metrics/tools",
     "POST /api/metrics/findings", "POST /api/metrics/wstg"}

\* C28: an accepted token, tool, finding or coverage write whose session_id
\* has no row in sessions leaves the sessions table exactly as it was: no row
\* is created and every existing row keeps all its values.
C28_MetricWithoutSessionLeavesSessions ==
    [][\A endpoint \in MetricEndpoints, t \in ClockReadings :
          (/\ Handled(endpoint, t)
           /\ resp'.status = 200
           /\ Owning(resp'.body[1].session_id) = {}) => sessions' = sessions]_vars

\* C28 case: the Session s1 exists with no tokens counted, and a token metric
\* of session s2, which has no Session row, was accepted and stored.
C28_Witness ==
    /\ Len(sessions) = 1
    /\ sessions[1].session_id = Some("s1")
    /\ sessions[1].total_tokens = 0
    /\ resp.endpoint = "POST /api/metrics/tokens"
    /\ resp.status = 200
    /\ resp.body[1].session_id = Some("s2")
    /\ Len(token_metrics) = 1
    /\ token_metrics[1].session_id = Some("s2")
    /\ token_metrics[1].total_tokens > 0

\* The positions of the separator "-" in an identifier.
Dashes(chars) == {i \in 1..Len(chars) : chars[i] = "-"}

\* The middle segment of PREFIX-CATEGORY-NUMBER: the characters between the
\* first and the second separator.
MiddleSegment(chars) ==
    LET first == CHOOSE i \in Dashes(chars) : \A j \in Dashes(chars) : i <= j
        second == CHOOSE i \in Dashes(chars) \ {first} :
                      \A j \in Dashes(chars) \ {first} : i <= j
    IN textOf(SubSeq(chars, first + 1, second - 1))

\* C30: in the by_category of a coverage report over all sessions every
\* stored coverage item is counted under the middle segment of its
\* identifier: that key is present and its total is the number of stored items
\* with that middle segment.
C30_CategoryIsMiddleSegment ==
    [][(Handled("GET /api/metrics/wstg", now) /\ GetWstg(None)) =>
          LET report == resp'.body[1]
              segment(i) == MiddleSegment(characters(wstg_coverage[i].wstg_id[1]))
          IN \A i \in 1..Len(wstg_coverage) :
                /\ segment(i) \in DOMAIN report.by_category
                /\ report.by_category[segment(i)].total
                     = Cardinality({j \in 1..Len(wstg_coverage) : segment(j) = segment(i)})]_vars

\* C31: in the sessions section of every dashboard the total is the sum of
\* the per-status counts returned, for sessions whose statuses are running,
\* completed, failed or timeout.
C31_SessionBucketsSumToTotal ==
    [][Handled("GET /api/metrics/dashboard", now) =>
          LET counts == resp'.body[1].sessions
          IN counts.total = numberOf(counts.running) + numberOf(counts.completed)
                              + numberOf(counts.failed)]_vars

\* The positions in a client's inbox of the {type:"event"} messages for an id.
EventMessages(c, id) ==
    {k \in 1..Len(inbox[c]) : inbox[c][k].type = "event" /\ inbox[c][k].data.id = Some(id)}

\* C32: once no respond request is suspended, the last {type:"event"} message
\* a live client received for an event id carries the humanInTheLoopStatus
\* stored for that event, also when two responds to the event overlapped.
C32_ClientsConvergeToStore ==
    inflight = {} =>
        \A c \in Live, i \in 1..Len(events) :
            EventMessages(c, events[i].id) # {} =>
                LET last == CHOOSE k \in EventMessages(c, events[i].id) :
                                \A j \in EventMessages(c, events[i].id) : j <= k
                IN inbox[c][last].data.humanInTheLoopStatus
                       = rowToEvent(events[i]).humanInTheLoopStatus

\* The sockets of a useWebSocket closure that are connecting or open.
LiveSockets(c) == {i \in 1..Len(c.sockets) : c.sockets[i] \in {"CONNECTING", "OPEN"}}

\* C33: from the call of disconnect() on the useWebSocket instance constructs
\* no WebSocket, whether a reconnect timer was pending or the socket being
\* closed fires its close event, and at no time are two of its sockets
\* connecting or open together.
C33_NoSocketAfterDisconnect ==
    [][/\ viewer'.lifecycle = "unmounted" => Len(viewer'.sockets) = Len(viewer.sockets)
       /\ Cardinality(LiveSockets(viewer')) <= 1]_vars

\* C33 case: disconnect() was called while the second socket was open (no
\* failure was counted since its open event), that socket has fired its close
\* event since, and no timer is pending.
C33_Witness ==
    /\ viewer.lifecycle = "unmounted"
    /\ Len(viewer.sockets) = 2
    /\ viewer.sockets[2] = "CLOSED"
    /\ viewer.reconnectAttempts = 0
    /\ viewer.ntimers = 1
    /\ viewer.timers = {}

\* The timers a step of the client has scheduled.
Scheduled == viewer'.timers \ viewer.timers

\* C34: while disconnect() has not been called, every failed connection
\* attempt and every closed socket is followed by a new connection attempt;
\* the timer scheduled after the k-th consecutive failure has the delay
\* min(1000 * 2^k, 30000) ms, at most 30 seconds, and every open event resets
\* the failure counter to 0.
C34_ReconnectsWithBackoff ==
    /\ [][/\ \A t \in Scheduled :
                /\ t.delay = IF 1000 * pow2(viewer'.reconnectAttempts) < 30000
                             THEN 1000 * pow2(viewer'.reconnectAttempts) ELSE 30000
                /\ t.delay <= 30000
                /\ viewer'.reconnectAttempts = viewer.reconnectAttempts + 1
          /\ (\E i \in 1..Len(viewer.sockets) :
                  viewer.sockets[i] = "CONNECTING" /\ viewer'.sockets[i] = "OPEN")
                => viewer'.reconnectAttempts = 0]_vars
    /\ (viewer.owed /\ viewer.lifecycle # "unmounted")
           ~> (~viewer.owed \/ viewer.lifecycle = "unmounted")

\* C35: after every message the events list of the client holds at most
\* maxEvents entries, and a pushed event that makes the list longer than
\* maxEvents removes exactly the 10 oldest entries: all newer ones and the
\* pushed one are kept in order.
C35_BufferDropsTenOldest ==
    [][\A i \in 1..Len(viewer.sockets), m \in ServerMessages :
          SocketMessage(i, m) =>
              /\ Len(viewer'.events) <= maxEvents
              /\ (m.type = "event" /\ Len(viewer.events) + 1 > maxEvents) =>
                     viewer'.events
                         = SubSeq(Append(viewer.events, m.data), 11, Len(viewer.events) + 1)]_vars

\* C36: every sendResponseToAgent call settles, once: its promise is resolved
\* only by the callback that follows a send on the opened socket, it is
\* rejected when the constructor or the send throws, on a socket error and on
\* the 5 s timeout while it is still pending, resolve and reject are called
\* once between them, and a settled call's socket is closing or closed.
C36_AgentSendSettlesOnce ==
    /\ \A k \in 1..MaxCalls :
          (k <= Len(sends)) ~> (k <= Len(sends) /\ sends[k].promise # "pending")
    /\ [][\A k \in 1..Len(sends') :
             LET before == IF k <= Len(sends) THEN sends[k] ELSE Pending
                 after == sends'[k]
             IN /\ after.settled <= 1
                /\ before.promise # "pending" => after.promise = before.promise
                /\ after.promise = "resolved" => after.sent /\ after.cause = "transmit"
                /\ after.promise = "rejected" =>
                       after.cause \in {"constructor", "send", "error", "timeout"}
                /\ after.promise # "pending" => after.ws \in {"null", "CLOSING", "CLOSED"}
                /\ (after.promise # "pending" /\ after.ws = "null") =>
                       after.cause = "constructor"
                /\ (before.promise = "pending" /\ k <= Len(sends)
                      /\ (AgentErrors(k) \/ TimeoutTimer(k))) => after.promise = "rejected"
                /\ (before.promise = "pending" /\ k <= Len(sends)
                      /\ AgentOpens(k, TRUE) /\ ~AgentOpens(k, FALSE)) =>
                       after.promise = "rejected"]_vars

\* C36 case: the first call was resolved after its send and its socket has
\* closed; the second was rejected by the timeout while its socket was still
\* connecting, and the socket was closed by that path.
C36_Witness ==
    /\ Len(sends) = 2
    /\ sends[1].promise = "resolved"
    /\ sends[1].sent
    /\ sends[1].ws = "CLOSED"
    /\ sends[2].promise = "rejected"
    /\ sends[2].cause = "timeout"
    /\ ~sends[2].sent
    /\ sends[2].ws = "CLOSING"

Aggregates ==
    {"started_at", "agents_used", "total_tokens", "total_cost", "total_findings",
     "total_tool_calls", "wstg_coverage_pct"}

\* C37: upsertSession leaves started_at, agents_used, the four totals and the
\* coverage percentage of an existing session as stored whatever the body
\* carries, keeps the stored value of client_name, target_url, status and
\* ended_at when the body omits the field, changes no other session, and a
\* session it creates has the four totals and the coverage percentage at 0.
C37_UpsertLeavesAggregates ==
    [][\A s \in UpsertSessions, t \in ClockReadings :
          (Handled("POST /api/sessions", t) /\ PostSessions(s, t)) =>
              /\ \A i \in 1..Len(sessions) :
                    IF sessions[i].session_id = s.session_id
                    THEN /\ \A f \in Aggregates : sessions'[i][f] = sessions[i][f]
                         /\ \A f \in {"client_name", "target_url", "status", "ended_at"} :
                               s[f] = None => sessions'[i][f] = sessions[i][f]
                    ELSE sessions'[i] = sessions[i]
              /\ Owning(s.session_id) = {} =>
                    /\ Len(sessions') = Len(sessions) + 1
                    /\ Last(sessions').total_tokens = 0
                    /\ Last(sessions').total_cost = 0
                    /\ Last(sessions').total_findings = 0
                    /\ Last(sessions').total_tool_calls = 0
                    /\ Last(sessions').wstg_coverage_pct = Zero]_vars

\* C37 case: session s1 has tokens, a tool call and an added agent counted,
\* and the upsert answered last, whose body carried other totals, set it to
\* completed.
C37_Witness ==
    /\ resp.endpoint = "POST /api/sessions"
    /\ resp.status = 200
    /\ nreq = MaxUpsertRequests
    /\ Len(sessions) = 1
    /\ sessions[1].status = Some("completed")
    /\ sessions[1].total_tokens + sessions[1].total_tool_calls > 0
    /\ resp.body[1].total_tokens = sessions[1].total_tokens
    /\ resp.body[1].total_tokens # 7

\* The step runs a broadcast loop: a write handler answers 200 (the respond
\* handler when it is not suspended, or when it is resumed).
Broadcasting ==
    /\ resp'.status = 200
    /\ resp'.endpoint \in {"POST /events", "POST /events/:id/respond",
                           "POST /api/sessions", "POST /api/metrics/tokens",
                           "POST /api/metrics/tools", "POST /api/metrics/findings",
                           "POST /api/metrics/wstg"}
    /\ \/ nreq' # nreq /\ inflight' = inflight
       \/ inflight' # inflight /\ inflight' \subseteq inflight

\* C38: a connection enters the registry in its open handler and nowhere
\* else, stays in it until its close handler, its error handler or a
\* broadcast whose send to it throws, leaves it at the first of these, and
\* once it has left no broadcast sends it a message.
C38_RegistryMembership ==
    [][\A c \in Clients :
          /\ (c \notin Registered /\ c \in Registered')
                => socket[c] = "idle" /\ socket'[c] = "open"
          /\ (socket[c] = "idle" /\ socket'[c] # "idle") => c \in Registered'
          /\ c \in Registered =>
                (c \notin Registered'
                    <=> \/ socket'[c] \in {"closed", "errored"}
                        \/ socket[c] = "broken" /\ Broadcasting)
          /\ (c \notin Registered' /\ socket[c] # "idle") => inbox'[c] = inbox[c]]_vars

\* C38 case: both connections were registered and received the first event;
\* the send of the second event to c1 threw and removed it, c2 received it.
C38_Witness ==
    /\ socket["c1"] = "broken"
    /\ "c1" \notin Registered
    /\ "c2" \in Live
    /\ Len(inbox["c1"]) = 2
    /\ Len(inbox["c2"]) = 3
    /\ inbox["c2"][3].type = "event"

\* C39: addAgentToSession is idempotent and set-like: a name already in the
\* session's agents_used leaves the sessions table unchanged, a new name is
\* appended once after the existing names, which keep their order, while every
\* other column and every other row stays, and for a session_id without a row
\* the table is unchanged and gets no row.
C39_AddAgentIsSetLike ==
    [][\A sid \in SessionIds, name \in {"recon", "exploit"}, t \in ClockReadings :
          PostSessionAgents(sid, Some(name), t) =>
             LET before == getSession(Some(sid))
                 after == getSessionOf(sessions', Some(sid))
             IN /\ before = None => sessions' = sessions
                /\ (before # None /\ name \in Range(before[1].agents_used))
                      => sessions' = sessions
                /\ (before # None /\ name \notin Range(before[1].agents_used))
                      => /\ after # None
                         /\ after[1].agents_used = Append(before[1].agents_used, name)
                         /\ after[1] = [before[1] EXCEPT
                                           !.agents_used = after[1].agents_used]
                         /\ Len(sessions') = Len(sessions)
                         /\ \A i \in 1..Len(sessions) :
                               sessions[i].session_id # Some(sid)
                                  => sessions'[i] = sessions[i]]_vars

\* C39 case: recon was added to a session that listed exploit, and the last
\* request added a listed name again and left the table as it was.
C39_Witness ==
    /\ nreq = 3
    /\ wseq = 2
    /\ resp.endpoint = "POST /api/sessions/:id/agents"
    /\ resp.status = 200
    /\ resp.body # None
    /\ getSession(Some("s1")) # None
    /\ getSession(Some("s1"))[1].agents_used = <<"exploit", "recon">>
    /\ getSession(Some("s2")) = None

=============================================================================
